---------------------------- MODULE Spec2Model ----------------------------
(***************************************************************************)
(* State-machine model of the interactive annotation subsystem of the      *)
(* pdf-sanitization front end.  The repository holds three variants of     *)
(* the same component:                                                     *)
(*   "App0"  src/frontend/src/PDFSanitizerApp0.jsx                         *)
(*   "App1"  src/frontend/src/PDFSanitizerApp1.jsx                         *)
(*   "App"   src/frontend/src/PDFSanitizerApp.jsx  (NewClientSetupPage)    *)
(* The variable `variant` fixes which one a behaviour is about.            *)
(*                                                                         *)
(* Ten specifications share the module:                                    *)
(*   SpecRender  the cancellable page-render pipeline                      *)
(*   SpecStore   the rectangle store, navigation and payload builder       *)
(*   SpecGeom    the coordinate conversions, on one rectangle              *)
(*   SpecEdit    the drawing steps, with pointer positions in pixels       *)
(*   SpecOrder   the store with room for three rectangles                  *)
(*   SpecSubmit  editing interleaved with submissions                      *)
(*   SpecParse   the erase-terms input and its parser                      *)
(*   SpecLoad    the document loads of App1, with a fair load              *)
(*   SpecRun     the Run button of App1, with a fair submission            *)
(*   SpecFiles   the selected files of the home page of App                *)
(***************************************************************************)
EXTENDS Integers, Sequences, FiniteSets, TLC

\* ------------------------------------------------------------------ bounds
\* Number of render requests (effect runs / renderPage calls) in a behaviour.
MaxRenders == 3
\* Number of distinct viewports (a (page, scale) pair and its pixel size).
NumViewports == 2
\* Number of files the operator selects.
MaxFiles == 2
\* Number of rectangles committed in a behaviour.
MaxCommits == 3
\* Number of rectangles held by the store at once.
MaxRects == 2
\* Number of distinct logo assets.
NumAssets == 1
\* Number of logo uploads started in a behaviour (App).
MaxUploads == 2
\* Width and height of the overlay canvas while rectangles are drawn; in App the
\* overlay has the size of the first page at scale 1, in points.
OverlayW == 6
OverlayH == 4
\* Length of the erase-terms inputs tried.
MaxChars == 3
\* onSubmit calls followed at once at most
MaxSubmits == 2
\* Number of files the home page lists at most (App).
MaxListed == 3
\* Pointer coordinates of App are multiples of 1/Unit px (getBoundingClientRect
\* is fractional).
Unit == 2

VARIABLES
  variant,        \* "App0" | "App1" | "App"
  \* ---- render pipeline
  nreq,           \* number of render requests issued so far
  rq,             \* rq[i]: request i = [vp, st, stale]
  renderTaskRef,  \* renderTaskRef.current: 0 (null) or the request whose task it holds
  canvasDims,     \* base canvas width/height: 0 (initial) or a viewport
  canvasContent,  \* 0: cleared or partially drawn; i: page of request i fully drawn
  overlayDims,    \* overlay canvas width/height: 0 (initial) or a viewport
  rendering,      \* App1: the `rendering` flag
  renderError,    \* App: the renderError string shown in the UI ("" = none)
  consoleErrors,  \* requests whose failure was written to console.error
  \* ---- history variables of the render pipeline (not program state)
  pubEver,        \* requests whose completion resized and repainted the overlay
  pubBefore,      \* pubEver as it was when the latest request was issued
  prevUnsettled,  \* requests still pending or in flight when the latest one was issued
  canvasSizedBy,  \* the request that sized (and so cleared) the base canvas last
  lastGood,       \* <<dims, content>> of the base canvas after the latest resolved render
  lastSettled,    \* the request whose task settled last (0: none yet)
  \* ---- files and navigation
  files,          \* App1 `files` / App `pdfFiles`: the selected documents, in order
  activeIdx,      \* App1 activeFileIdx / App activeIndex, counted from 1 here
  loadOf,         \* App1: index of the file whose load() is pending and not cancelled (0: none)
  pdfDoc,         \* App1: the loaded document (0: null)
  numPages,       \* App1: numPages
  pageNumber,     \* App1: pageNumber (1-based)
  loadingPdf,     \* App1: the `loadingPdf` flag
  \* ---- pointer interaction
  isDrawing,      \* App1 isDrawingRef / App drawingRef
  draft,          \* App: the draft <<x, y, w, h>> in 1/Unit px (<<>>: null)
  confirmUI,      \* App: the confirm/cancel prompt is shown
  \* ---- annotation store
  pageRects,      \* App1: page -> sequence of [id, nr, kind, logoFile, doc]
  rects,          \* App: sequence of [id, x, y, w, h, fileIdx, page]
  rectActions,    \* App: id -> [action, logoFile, logoKey]
  templateFileIdx,\* App: file of the first confirmed rectangle (0: null)
  uploads,        \* App: logo uploads in flight, as <<id, asset>>
  nextId,         \* number of rectangles committed so far (ids are 1..nextId)
  nUploads,       \* number of logo uploads started so far
  \* ---- history variable of the store (not program state)
  cleared,        \* id -> the asset the latest switch to redact removed, until an
                  \* asset is attached to the rectangle again (0: none)
  \* ---- the drawing refs, and the zone list of App0
  startPos,       \* App0, App1: startPosRef.current; App: startRef.current
  currentPos,     \* App0, App1: currentPosRef.current, a point <<x, y>>
  redactionZones, \* App0: sequence of [x, y, width, height, page]
  \* ---- history variable of the drag in App0 (not program state)
  pointerPos,     \* where the pointer was at the latest mouse event handled
  \* ---- history variable of the editing steps (not program state)
  lastOp,         \* the handler that ran last, as tracked by SpecEdit and SpecOrder
  \* ---- coordinate conversions
  geo,            \* one rectangle taken through the conversions (see SpecGeom)
  \* ---- bound of a behaviour (not program state)
  rectCap,        \* number of rectangles the store holds at once at most
  \* ---- submission
  submitting,     \* App1: the `submitting` flag; App: a runSanitization call awaits fetch
  submissions,    \* App1: onSubmit calls that have not reached their finally
  \* ---- text inputs
  csv             \* one erase-terms input taken through parseEraseCSV (see SpecParse)

renderVars == <<nreq, rq, renderTaskRef, canvasDims, canvasContent, overlayDims,
                rendering, renderError, consoleErrors,
                pubEver, pubBefore, prevUnsettled, canvasSizedBy, lastGood,
                lastSettled>>

storeVars == <<files, activeIdx, loadOf, pdfDoc, numPages, pageNumber, loadingPdf,
               isDrawing,
               draft, confirmUI, pageRects, rects, rectActions, templateFileIdx,
               uploads, nextId, nUploads, cleared>>

app0Vars == <<startPos, currentPos, redactionZones, pointerPos>>

submitVars == <<submitting, submissions>>

vars == <<variant, renderVars, storeVars, app0Vars, lastOp, geo, rectCap, submitVars,
          csv>>

\* ======================================================================
\* Coordinate conversions
\* ======================================================================
\* A number the code obtains by division is kept as an exact fraction <<n, d>>
\* with d > 0.
Frac(n, d) == <<n, d>>
FracEq(a, b) == a[1] * b[2] = b[1] * a[2]
FracLe(a, b) == a[1] * b[2] <= b[1] * a[2]
FracMul(a, k) == <<a[1] * k, a[2]>>

Min(a, b) == IF a <= b THEN a ELSE b
Max(a, b) == IF a >= b THEN a ELSE b
Abs(a) == IF a >= 0 THEN a ELSE 0 - a

\* normalizeRect without the clamping to the surface.
normalizeRectUnclamped(pxRect, w, h) ==
  [x1n |-> Frac(Min(pxRect.x1, pxRect.x2), w), y1n |-> Frac(Min(pxRect.y1, pxRect.y2), h),
   x2n |-> Frac(Max(pxRect.x1, pxRect.x2), w), y2n |-> Frac(Max(pxRect.y1, pxRect.y2), h)]

\* normalizeRect without the ordering of the corners.
normalizeRectUnordered(pxRect, w, h) ==
  [x1n |-> Frac(Max(0, Min(pxRect.x1, w)), w), y1n |-> Frac(Max(0, Min(pxRect.y1, h)), h),
   x2n |-> Frac(Max(0, Min(pxRect.x2, w)), w), y2n |-> Frac(Max(0, Min(pxRect.y2, h)), h)]

\* normalizeRect(pxRect, w, h): clamp each corner to the surface, order the
\* corners, divide by the surface size.
normalizeRect(pxRect, w, h) ==
  LET x1 == Max(0, Min(pxRect.x1, w))
      x2 == Max(0, Min(pxRect.x2, w))
      y1 == Max(0, Min(pxRect.y1, h))
      y2 == Max(0, Min(pxRect.y2, h))
      left == Min(x1, x2)
      right == Max(x1, x2)
      top == Min(y1, y2)
      bottom == Max(y1, y2)
  IN [x1n |-> Frac(left, w), y1n |-> Frac(top, h),
      x2n |-> Frac(right, w), y2n |-> Frac(bottom, h)]

\* denormalizeRect with width and height swapped.
denormalizeRectSwapped(nr, w, h) ==
  [x1 |-> FracMul(nr.x1n, h), y1 |-> FracMul(nr.y1n, w),
   x2 |-> FracMul(nr.x2n, h), y2 |-> FracMul(nr.y2n, w)]

\* denormalizeRect(nr, w, h)
denormalizeRect(nr, w, h) ==
  [x1 |-> FracMul(nr.x1n, w), y1 |-> FracMul(nr.y1n, h),
   x2 |-> FracMul(nr.x2n, w), y2 |-> FracMul(nr.y2n, h)]

\* normRectToPdfPoints(nr, pageWpts, pageHpts)
normRectToPdfPoints(nr, pageWpts, pageHpts) ==
  [x1 |-> FracMul(nr.x1n, pageWpts), y1 |-> FracMul(nr.y1n, pageHpts),
   x2 |-> FracMul(nr.x2n, pageWpts), y2 |-> FracMul(nr.y2n, pageHpts)]

\* fmt(n) = Math.round(n * 100) / 100, Math.round being floor(x + 0.5).
fmt(n) == Frac((2 * 100 * n[1] + n[2]) \div (2 * n[2]), 100)

\* buildPayloadAndLogos: bbox_pts of a stored rectangle, from the page size at
\* scale 1.
BboxPts1(nr, pageW, pageH) ==
  LET pts == normRectToPdfPoints(nr, pageW, pageH)
  IN <<fmt(pts.x1), fmt(pts.y1), fmt(pts.x2), fmt(pts.y2)>>

\* App0 handleMouseUp: the box between startPos and currentPos.
Zone0(start, current, page) ==
  [x |-> Min(start[1], current[1]), y |-> Min(start[2], current[2]),
   width |-> Abs(current[1] - start[1]), height |-> Abs(current[2] - start[2]),
   page |-> page]

\* App0 handleMouseUp: w > 5 && h > 5
Accept0(z) == z.width > 5 /\ z.height > 5

\* App0 runSanitization: bbox: [z.x, z.y, z.x + z.width, z.y + z.height]
Bbox0(z) ==
  <<Frac(z.x, 1), Frac(z.y, 1), Frac(z.x + z.width, 1), Frac(z.y + z.height, 1)>>

\* ------------------------------------------------------------- SpecGeom
\* Page sizes in points, zoom factors, and the overlay size they give.
PageSizes == {<<2, 4>>, <<612, 792>>}
Scales == {Frac(1, 1), Frac(3, 2), Frac(2, 1)}
SurfaceOf(page, scale) ==
  <<(page[1] * scale[1]) \div scale[2], (page[2] * scale[1]) \div scale[2]>>

\* Pointer coordinates tried on an axis of length n: inside, on and beyond the
\* edges of the surface.
Coords(n) == {-1, 0, 1, n, n + 1}

ZeroFrac == Frac(0, 1)
NoNr == [x1n |-> ZeroFrac, y1n |-> ZeroFrac, x2n |-> ZeroFrac, y2n |-> ZeroFrac]
NoPx == [x1 |-> ZeroFrac, y1 |-> ZeroFrac, x2 |-> ZeroFrac, y2 |-> ZeroFrac]
NoBbox == <<ZeroFrac, ZeroFrac, ZeroFrac, ZeroFrac>>
NoZone == Zone0(<<0, 0>>, <<0, 0>>, 1)

\* geo while no conversion is under study.
GeoIdle ==
  [px |-> [x1 |-> 0, y1 |-> 0, x2 |-> 0, y2 |-> 0], page |-> <<2, 4>>,
   scale |-> Frac(1, 1), nr |-> NoNr, back |-> NoPx, zone |-> NoZone,
   bbox |-> NoBbox, done |-> {}]

Surface == SurfaceOf(geo.page, geo.scale)

\* A page whose overlay is 800 x 600 px at scale 1, and the drags between the
\* points (10, 10) and (110, 60) in every direction.
WidePage == <<800, 600>>
WidePageDrags ==
  {[x1 |-> x1, y1 |-> y1, x2 |-> 120 - x1, y2 |-> 70 - y1] : x1 \in {10, 110}, y1 \in {10, 60}}

InitGeoVar ==
  \/ \E page \in PageSizes, scale \in Scales :
       \E x1, x2 \in Coords(SurfaceOf(page, scale)[1]),
          y1, y2 \in Coords(SurfaceOf(page, scale)[2]) :
         geo = [GeoIdle EXCEPT !.px = [x1 |-> x1, y1 |-> y1, x2 |-> x2, y2 |-> y2],
                               !.page = page, !.scale = scale]
  \/ \E px \in WidePageDrags :
       geo = [GeoIdle EXCEPT !.px = px, !.page = WidePage, !.scale = Frac(1, 1)]

\* App1 handlePointerUp: nr = normalizeRect({x1, y1, x2, y2}, o.width, o.height)
NormalizeG ==
  /\ variant = "App1"
  /\ "nr" \notin geo.done
  /\ geo' = [geo EXCEPT !.nr = normalizeRect(geo.px, Surface[1], Surface[2]),
                        !.done = @ \cup {"nr"}]

\* App1 drawOverlay: denormalizeRect(r.nr, o.width, o.height)
DenormalizeG ==
  /\ variant = "App1"
  /\ "nr" \in geo.done
  /\ "back" \notin geo.done
  /\ geo' = [geo EXCEPT !.back = denormalizeRect(geo.nr, Surface[1], Surface[2]),
                        !.done = @ \cup {"back"}]

\* App1 buildPayloadAndLogos for a rectangle that handlePointerUp stored: the
\* page size is read from the viewport at scale 1.
BuildG1 ==
  /\ variant = "App1"
  /\ "nr" \in geo.done
  /\ "bbox" \notin geo.done
  /\ ~FracEq(geo.nr.x1n, geo.nr.x2n) /\ ~FracEq(geo.nr.y1n, geo.nr.y2n)
  /\ geo' = [geo EXCEPT !.bbox = BboxPts1(geo.nr, geo.page[1], geo.page[2]),
                        !.done = @ \cup {"bbox"}]

\* App0 handleMouseUp on the drag px.(x1, y1) -> px.(x2, y2).
MouseUpG0 ==
  /\ variant = "App0"
  /\ geo.done = {}
  /\ LET z == Zone0(<<geo.px.x1, geo.px.y1>>, <<geo.px.x2, geo.px.y2>>, 1) IN
       geo' = [geo EXCEPT !.zone = z,
                          !.done = IF Accept0(z) THEN {"zone"} ELSE {"rejected"}]

\* App0 runSanitization for the zone that handleMouseUp stored.
BuildG0 ==
  /\ variant = "App0"
  /\ "zone" \in geo.done
  /\ "bbox" \notin geo.done
  /\ geo' = [geo EXCEPT !.bbox = Bbox0(geo.zone), !.done = @ \cup {"bbox"}]

\* ======================================================================
\* Text inputs (PDFSanitizerApp.jsx)
\* ======================================================================
\* A string is a sequence of one-character strings.  Of the characters that
\* occur below only "F" has a lower-case form different from itself.
toLowerCase(t) == [i \in DOMAIN t |-> IF t[i] = "F" THEN "f" ELSE t[i]]

\* White space as String.prototype.trim sees it.
IsSpace(c) == c \in {" ", "\n"}

RECURSIVE trimStart(_)
trimStart(t) ==
  IF t # <<>> /\ IsSpace(Head(t)) THEN trimStart(Tail(t)) ELSE t

RECURSIVE trimEnd(_)
trimEnd(t) ==
  IF t # <<>> /\ IsSpace(t[Len(t)]) THEN trimEnd(SubSeq(t, 1, Len(t) - 1)) ELSE t

trim(t) == trimEnd(trimStart(t))

\* s.split(/[,\n]/): the pieces between separators, empty pieces included.
IsSeparator(c) == c \in {",", "\n"}

RECURSIVE split(_)
split(t) ==
  IF \A i \in DOMAIN t : ~IsSeparator(t[i]) THEN <<t>>
  ELSE LET i == CHOOSE j \in DOMAIN t :
                  IsSeparator(t[j]) /\ \A k \in 1..(j - 1) : ~IsSeparator(t[k])
       IN <<SubSeq(t, 1, i - 1)>> \o split(SubSeq(t, i + 1, Len(t)))

\* .map(t => t.trim()).filter(Boolean)
TrimmedTerms(t) ==
  LET pieces == split(t)
      NonEmpty(x) == x # <<>>
  IN SelectSeq([i \in DOMAIN pieces |-> trim(pieces[i])], NonEmpty)

\* for (const t of arr) { const k = t.toLowerCase();
\*   if (!seen.has(k)) { seen.add(k); out.push(t); } }
RECURSIVE FirstOfEachKey(_, _, _)
FirstOfEachKey(arr, seen, out) ==
  IF arr = <<>> THEN out
  ELSE LET k == toLowerCase(Head(arr)) IN
         IF k \in seen THEN FirstOfEachKey(Tail(arr), seen, out)
         ELSE FirstOfEachKey(Tail(arr), seen \cup {k}, Append(out, Head(arr)))

\* parseEraseCSV(input)
parseEraseCSV(input) ==
  LET s == trim(input)
  IN IF s = <<>> THEN <<>> ELSE FirstOfEachKey(TrimmedTerms(s), {}, <<>>)

\* eraseRaw and eraseList = useMemo(() => parseEraseCSV(eraseRaw)) at the start.
CsvIdle == [raw |-> <<>>, out |-> <<>>]

\* ======================================================================
\* The render pipeline
\* ======================================================================
Viewports == 1..NumViewports
Requests == 1..MaxRenders

\* A request's status.  "getPage": awaiting pdf.getPage; "running": page.render
\* started, task.promise pending; "cancelling": task.cancel() was called, the
\* rejection has not been delivered yet; the rest are settled.
Settled == {"resolved", "cancelled", "failed", "getPageFailed"}

NoRequest == [vp |-> 0, st |-> "idle", stale |-> FALSE]

\* Tasks in flight: started, neither finished nor cancelled.
InFlight == {i \in Requests : rq[i].st = "running"}

\* Requests that are pending (awaiting getPage) or whose task has not settled.
Unsettled == {i \in Requests : rq[i].st \in {"getPage", "running", "cancelling"}}

\* A promise reaction is a microtask: once cancel() has rejected a task's
\* promise, the awaiting render call resumes before any other event (a getPage
\* answer, a task completion, an effect run) is handled.
NoMicrotaskPending == \A i \in Requests : rq[i].st # "cancelling"

\* No request is pending or in flight.
Quiescent == \A i \in Requests : rq[i].st \in Settled \cup {"idle"}

\* RenderTask.cancel(): a task that is still rendering will reject with
\* RenderingCancelledException; on a task that already settled it does nothing.
CancelTask(r, i) ==
  IF i # 0 /\ r[i].st = "running" THEN [r EXCEPT ![i].st = "cancelling"] ELSE r

InitRenderVars ==
  /\ nreq = 0
  /\ rq = [i \in Requests |-> NoRequest]
  /\ renderTaskRef = 0
  /\ canvasDims = 0
  /\ canvasContent = 0
  /\ overlayDims = 0
  /\ rendering = FALSE
  /\ renderError = ""
  /\ consoleErrors = {}
  /\ pubEver = {}
  /\ pubBefore = {}
  /\ prevUnsettled = {}
  /\ canvasSizedBy = 0
  /\ lastGood = <<0, 0>>
  /\ lastSettled = 0

InitStoreVars ==
  /\ files = IF variant = "App" THEN [i \in 1..MaxFiles |-> i] ELSE <<>>
  /\ activeIdx = 1
  /\ loadOf = 0
  /\ pdfDoc = 0
  /\ numPages = 0
  /\ pageNumber = 1
  /\ loadingPdf = FALSE
  /\ isDrawing = FALSE
  /\ draft = <<>>
  /\ confirmUI = FALSE
  /\ pageRects = <<>>
  /\ rects = <<>>
  /\ rectActions = <<>>
  /\ templateFileIdx = 0
  /\ uploads = {}
  /\ nextId = 0
  /\ nUploads = 0
  /\ cleared = [i \in 1..MaxCommits |-> 0]
  /\ startPos = <<0, 0>>
  /\ currentPos = <<0, 0>>
  /\ redactionZones = <<>>
  /\ pointerPos = <<0, 0>>
  /\ lastOp = "none"
  /\ submitting = FALSE
  /\ submissions = 0

\* History bookkeeping common to every new request.
NoteRequest ==
  /\ nreq' = nreq + 1
  /\ pubBefore' = pubEver
  /\ prevUnsettled' = Unsettled

\* What a task that resolves leaves on the base canvas: the page of request i
\* when i was the last to size the canvas, a mix of drawings otherwise.
DrawnBy(i) == IF canvasSizedBy = i THEN i ELSE 0

\* ------------------------------------------------- PDFSanitizerApp0.jsx
\* renderPage(pdf, pageNum, scale) is called: it awaits pdf.getPage first.
RequestRender0(v) ==
  /\ variant = "App0"
  /\ NoMicrotaskPending
  /\ nreq < MaxRenders
  /\ NoteRequest
  /\ rq' = [rq EXCEPT ![nreq + 1] = [vp |-> v, st |-> "getPage", stale |-> FALSE]]
  /\ UNCHANGED <<variant, renderTaskRef, canvasDims, canvasContent, overlayDims,
                 rendering, renderError, consoleErrors, pubEver, canvasSizedBy,
                 lastGood, lastSettled>>

\* getPage resolved: size the canvas, cancel the task in renderTaskRef, start
\* this page's render and store its task.
GetPageDone0(i) ==
  /\ variant = "App0"
  /\ NoMicrotaskPending
  /\ rq[i].st = "getPage"
  /\ canvasDims' = rq[i].vp
  /\ canvasContent' = 0
  /\ canvasSizedBy' = i
  /\ rq' = [CancelTask(rq, renderTaskRef) EXCEPT ![i].st = "running"]
  /\ renderTaskRef' = i
  /\ UNCHANGED <<variant, nreq, overlayDims, rendering, renderError, consoleErrors,
                 pubEver, pubBefore, prevUnsettled, lastGood, lastSettled>>

\* getPage rejected: renderPage rejects before it touched anything.
GetPageFail0(i) ==
  /\ variant = "App0"
  /\ NoMicrotaskPending
  /\ rq[i].st = "getPage"
  /\ rq' = [rq EXCEPT ![i].st = "getPageFailed"]
  /\ UNCHANGED <<variant, nreq, renderTaskRef, canvasDims, canvasContent, overlayDims,
                 rendering, renderError, consoleErrors, pubEver, pubBefore,
                 prevUnsettled, canvasSizedBy, lastGood, lastSettled>>

\* The statements after try/catch/finally: they run on every outcome.
AfterTask0(i) ==
  /\ renderTaskRef' = 0
  /\ overlayDims' = rq[i].vp
  /\ pubEver' = pubEver \cup {i}
  /\ lastSettled' = i

\* task.promise resolved.
TaskResolve0(i) ==
  /\ variant = "App0"
  /\ NoMicrotaskPending
  /\ rq[i].st = "running"
  /\ rq' = [rq EXCEPT ![i].st = "resolved"]
  /\ canvasContent' = DrawnBy(i)
  /\ lastGood' = <<canvasDims, DrawnBy(i)>>
  /\ AfterTask0(i)
  /\ UNCHANGED <<variant, nreq, canvasDims, rendering, renderError, consoleErrors,
                 pubBefore, prevUnsettled, canvasSizedBy>>

\* task.promise rejected with RenderingCancelledException: nothing is logged.
TaskCancelled0(i) ==
  /\ variant = "App0"
  /\ rq[i].st = "cancelling"
  /\ rq' = [rq EXCEPT ![i].st = "cancelled"]
  /\ AfterTask0(i)
  /\ UNCHANGED <<variant, nreq, canvasDims, canvasContent, rendering, renderError,
                 consoleErrors, pubBefore, prevUnsettled, canvasSizedBy, lastGood>>

\* task.promise rejected with another error: console.error only.
TaskFail0(i) ==
  /\ variant = "App0"
  /\ NoMicrotaskPending
  /\ rq[i].st = "running"
  /\ rq' = [rq EXCEPT ![i].st = "failed"]
  /\ consoleErrors' = consoleErrors \cup {i}
  /\ AfterTask0(i)
  /\ UNCHANGED <<variant, nreq, canvasDims, canvasContent, rendering, renderError,
                 pubBefore, prevUnsettled, canvasSizedBy, lastGood>>

\* ------------------------------------------------- PDFSanitizerApp1.jsx
\* The render effect runs: cancel the task in renderTaskRef, clear the ref,
\* setRendering(true), then await pdfDoc.getPage.
RequestRender1(v) ==
  /\ variant = "App1"
  /\ NoMicrotaskPending
  /\ nreq < MaxRenders
  /\ NoteRequest
  /\ rq' = [CancelTask(rq, renderTaskRef) EXCEPT
              ![nreq + 1] = [vp |-> v, st |-> "getPage", stale |-> FALSE]]
  /\ renderTaskRef' = 0
  /\ rendering' = TRUE
  /\ UNCHANGED <<variant, canvasDims, canvasContent, overlayDims, renderError,
                 consoleErrors, pubEver, canvasSizedBy, lastGood, lastSettled>>

\* getPage resolved: size the canvas, start the render, store its task.
GetPageDone1(i) ==
  /\ variant = "App1"
  /\ NoMicrotaskPending
  /\ rq[i].st = "getPage"
  /\ canvasDims' = rq[i].vp
  /\ canvasContent' = 0
  /\ canvasSizedBy' = i
  /\ rq' = [rq EXCEPT ![i].st = "running"]
  /\ renderTaskRef' = i
  /\ UNCHANGED <<variant, nreq, overlayDims, rendering, renderError, consoleErrors,
                 pubEver, pubBefore, prevUnsettled, lastGood, lastSettled>>

\* getPage rejected inside the try block: console.error, setRendering(false).
GetPageFail1(i) ==
  /\ variant = "App1"
  /\ NoMicrotaskPending
  /\ rq[i].st = "getPage"
  /\ rq' = [rq EXCEPT ![i].st = "getPageFailed"]
  /\ consoleErrors' = consoleErrors \cup {i}
  /\ rendering' = FALSE
  /\ UNCHANGED <<variant, nreq, renderTaskRef, canvasDims, canvasContent, overlayDims,
                 renderError, pubEver, pubBefore, prevUnsettled, canvasSizedBy,
                 lastGood, lastSettled>>

\* task.promise resolved: size the overlay like the viewport, drawOverlay().
TaskResolve1(i) ==
  /\ variant = "App1"
  /\ NoMicrotaskPending
  /\ rq[i].st = "running"
  /\ rq' = [rq EXCEPT ![i].st = "resolved"]
  /\ canvasContent' = DrawnBy(i)
  /\ lastGood' = <<canvasDims, DrawnBy(i)>>
  /\ overlayDims' = rq[i].vp
  /\ pubEver' = pubEver \cup {i}
  /\ rendering' = FALSE
  /\ lastSettled' = i
  /\ UNCHANGED <<variant, nreq, renderTaskRef, canvasDims, renderError, consoleErrors,
                 pubBefore, prevUnsettled, canvasSizedBy>>

\* task.promise rejected with RenderingCancelledException: only the finally
\* block runs.
TaskCancelled1(i) ==
  /\ variant = "App1"
  /\ rq[i].st = "cancelling"
  /\ rq' = [rq EXCEPT ![i].st = "cancelled"]
  /\ rendering' = FALSE
  /\ lastSettled' = i
  /\ UNCHANGED <<variant, nreq, renderTaskRef, canvasDims, canvasContent, overlayDims,
                 renderError, consoleErrors, pubEver, pubBefore, prevUnsettled,
                 canvasSizedBy, lastGood>>

\* task.promise rejected with another error: console.error, setRendering(false).
TaskFail1(i) ==
  /\ variant = "App1"
  /\ NoMicrotaskPending
  /\ rq[i].st = "running"
  /\ rq' = [rq EXCEPT ![i].st = "failed"]
  /\ consoleErrors' = consoleErrors \cup {i}
  /\ rendering' = FALSE
  /\ lastSettled' = i
  /\ UNCHANGED <<variant, nreq, renderTaskRef, canvasDims, canvasContent, overlayDims,
                 renderError, pubEver, pubBefore, prevUnsettled, canvasSizedBy, lastGood>>

\* -------------------------------------------------- PDFSanitizerApp.jsx
\* The file changed: the previous effect's cleanup sets its `cancelled`, the new
\* render() clears renderError and awaits ensurePdfJs / getDocument / getPage.
RequestRenderA(v) ==
  /\ variant = "App"
  /\ NoMicrotaskPending
  /\ nreq < MaxRenders
  /\ NoteRequest
  /\ rq' = [i \in Requests |->
              IF i = nreq + 1 THEN [vp |-> v, st |-> "getPage", stale |-> FALSE]
              ELSE IF i <= nreq THEN [rq[i] EXCEPT !.stale = TRUE]
              ELSE rq[i]]
  /\ renderError' = ""
  /\ UNCHANGED <<variant, renderTaskRef, canvasDims, canvasContent, overlayDims,
                 rendering, consoleErrors, pubEver, canvasSizedBy, lastGood,
                 lastSettled>>

\* The page is there: size canvas and overlay, then start page.render.
GetPageDoneA(i) ==
  /\ variant = "App"
  /\ NoMicrotaskPending
  /\ rq[i].st = "getPage"
  /\ canvasDims' = rq[i].vp
  /\ canvasContent' = 0
  /\ canvasSizedBy' = i
  /\ overlayDims' = rq[i].vp
  /\ rq' = [rq EXCEPT ![i].st = "running"]
  /\ UNCHANGED <<variant, nreq, renderTaskRef, rendering, renderError, consoleErrors,
                 pubEver, pubBefore, prevUnsettled, lastGood, lastSettled>>

\* The catch block: console.error and setRenderError, whatever `cancelled` is.
CatchA(i) ==
  /\ consoleErrors' = consoleErrors \cup {i}
  /\ renderError' = "Failed to render PDF first page."

\* Loading the document or the page failed.
GetPageFailA(i) ==
  /\ variant = "App"
  /\ NoMicrotaskPending
  /\ rq[i].st = "getPage"
  /\ rq' = [rq EXCEPT ![i].st = "getPageFailed"]
  /\ CatchA(i)
  /\ UNCHANGED <<variant, nreq, renderTaskRef, canvasDims, canvasContent, overlayDims,
                 rendering, pubEver, pubBefore, prevUnsettled, canvasSizedBy,
                 lastGood, lastSettled>>

\* page.render(...).promise resolved; nothing follows the `cancelled` test.
TaskResolveA(i) ==
  /\ variant = "App"
  /\ NoMicrotaskPending
  /\ rq[i].st = "running"
  /\ rq' = [rq EXCEPT ![i].st = "resolved"]
  /\ canvasContent' = DrawnBy(i)
  /\ lastGood' = <<canvasDims, DrawnBy(i)>>
  /\ lastSettled' = i
  /\ UNCHANGED <<variant, nreq, renderTaskRef, canvasDims, overlayDims, rendering,
                 renderError, consoleErrors, pubEver, pubBefore, prevUnsettled,
                 canvasSizedBy>>

\* page.render(...).promise rejected.
TaskFailA(i) ==
  /\ variant = "App"
  /\ NoMicrotaskPending
  /\ rq[i].st = "running"
  /\ rq' = [rq EXCEPT ![i].st = "failed"]
  /\ CatchA(i)
  /\ lastSettled' = i
  /\ UNCHANGED <<variant, nreq, renderTaskRef, canvasDims, canvasContent, overlayDims,
                 rendering, pubEver, pubBefore, prevUnsettled, canvasSizedBy, lastGood>>

\* ------------------------------------------------------------ SpecRender
InitRender ==
  /\ variant \in {"App0", "App1", "App"}
  /\ InitRenderVars
  /\ InitStoreVars
  /\ geo = GeoIdle
  /\ csv = CsvIdle
  /\ rectCap = MaxRects

NextRender ==
  /\ UNCHANGED <<storeVars, app0Vars, lastOp, geo, rectCap, submitVars, csv>>
  /\ \/ \E v \in Viewports : RequestRender0(v) \/ RequestRender1(v) \/ RequestRenderA(v)
     \/ \E i \in Requests :
          \/ GetPageDone0(i) \/ GetPageFail0(i)
          \/ TaskResolve0(i) \/ TaskCancelled0(i) \/ TaskFail0(i)
          \/ GetPageDone1(i) \/ GetPageFail1(i)
          \/ TaskResolve1(i) \/ TaskCancelled1(i) \/ TaskFail1(i)
          \/ GetPageDoneA(i) \/ GetPageFailA(i)
          \/ TaskResolveA(i) \/ TaskFailA(i)

SpecRender == InitRender /\ [][NextRender]_vars

\* ------------------------------------------------ claims on the pipeline
\* The latest request was issued while the previous one (and only it) had not
\* finished, and both have settled, the latest one successfully.
SecondSupersededFirst ==
  /\ variant \in {"App0", "App1"}
  /\ nreq >= 2
  /\ prevUnsettled = {nreq - 1}
  /\ Quiescent
  /\ rq[nreq].st = "resolved"

\* C1: when a second render is requested while the first is in flight, then
\* after both have settled the completion that is visible is the second's: base
\* canvas and overlay have the second request's dimensions.
C1_OnlySecondVisible ==
  SecondSupersededFirst =>
    /\ canvasDims = rq[nreq].vp
    /\ overlayDims = rq[nreq].vp

\* C2: at most one rasterization task is in flight per canvas at any time.
C2_AtMostOneInFlight ==
  variant \in {"App0", "App1"} => Cardinality(InFlight) <= 1

\* C3: a render whose task was cancelled (its promise rejected with
\* RenderingCancelledException) neither resizes nor repaints the overlay.
C3_CancelledPublishesNothing ==
  variant \in {"App0", "App1"} =>
    \A i \in Requests : rq[i].st = "cancelled" => i \notin pubEver

\* The render that settled last failed for a reason other than cancellation,
\* nothing is pending, and a render had succeeded before.
FailedAfterGood ==
  /\ Quiescent
  /\ lastSettled # 0
  /\ rq[lastSettled].st = "failed"
  /\ lastGood # <<0, 0>>

\* C4: after a render failed (not by cancellation) the base canvas still has the
\* pixel dimensions and the content of the last successful render.
C4_PreviousSurfaceKept ==
  FailedAfterGood => canvasDims = lastGood[1] /\ canvasContent = lastGood[2]

\* C5: a failure other than cancellation of the latest render leaves a non-empty
\* error state for the UI, and a cancellation is never reported as an error.
C5_FailureSurfaced ==
  /\ (Quiescent /\ nreq >= 1 /\ rq[nreq].st = "failed") => renderError # ""
  /\ \A i \in Requests : rq[i].st = "cancelled" => i \notin consoleErrors

\* ======================================================================
\* Files, navigation, pointer interaction and the rectangle store
\* ======================================================================
Docs == 1..MaxFiles
Assets == 1..NumAssets
Ids == 1..MaxCommits

\* Page count of the test documents: document 1 has two pages, the others one.
PagesOf(d) == IF d = 1 THEN 2 ELSE 1

Range(f) == {f[x] : x \in DOMAIN f}

\* A removal that moves the last element into the place of the removed one.
RemoveAtSwap(seq, idx) ==
  [j \in 1..(Len(seq) - 1) |-> IF j = idx THEN seq[Len(seq)] ELSE seq[j]]

\* seq without its element at position idx (Array.prototype.splice(idx, 1) /
\* filter((_, i) => i !== idx)).
RemoveAt(seq, idx) ==
  [j \in 1..(Len(seq) - 1) |-> IF j < idx THEN seq[j] ELSE seq[j + 1]]

\* obj[key] = val on a copy of a JS object: the key is created when missing.
Put(obj, key, val) ==
  [k \in DOMAIN obj \cup {key} |-> IF k = key THEN val ELSE obj[k]]

\* delete obj[key] on a copy of a JS object.
Drop(obj, key) == [k \in DOMAIN obj \ {key} |-> obj[k]]

\* pageRects[p] || []
PageArr(p) == IF p \in DOMAIN pageRects THEN pageRects[p] ELSE <<>>

\* files[activeFileIdx] || null, as a document (0: null).
ActiveFile == IF activeIdx \in DOMAIN files THEN files[activeIdx] ELSE 0

NoCleared == [i \in Ids |-> 0]

\* The store: every rectangle held, as [id, page, doc, kind, asset].
Stored1 ==
  {[id |-> pageRects[p][j].id, page |-> p, doc |-> pageRects[p][j].doc,
    kind |-> pageRects[p][j].kind, asset |-> pageRects[p][j].logoFile] :
      <<p, j>> \in {<<q, i>> \in (DOMAIN pageRects) \X (1..MaxCommits) : i <= Len(pageRects[q])}}

\* ------------------------------------------------- PDFSanitizerApp1.jsx
\* "Add PDFs": append to files, setActiveFileIdx(0); the load effect runs again
\* when the active file or its index changed.
AddFiles1(d) ==
  /\ variant = "App1"
  /\ Len(files) < MaxFiles
  /\ d \notin Range(files)
  /\ files' = Append(files, d)
  /\ activeIdx' = 1
  /\ loadOf' = IF files = <<>> \/ activeIdx # 1 THEN 1 ELSE loadOf
  /\ loadingPdf' = IF files = <<>> \/ activeIdx # 1 THEN TRUE ELSE loadingPdf
  /\ UNCHANGED app0Vars
  /\ UNCHANGED <<variant, pdfDoc, numPages, pageNumber, isDrawing, draft, confirmUI,
                 pageRects, rects, rectActions, templateFileIdx, uploads, nextId,
                 nUploads, cleared>>

\* The file <select>: setActiveFileIdx(i); the load effect cancels the pending
\* load and starts one for the new file.
SelectFile1(i) ==
  /\ variant = "App1"
  /\ i \in DOMAIN files
  /\ i # activeIdx
  /\ activeIdx' = i
  /\ loadOf' = i
  /\ loadingPdf' = TRUE
  /\ UNCHANGED app0Vars
  /\ UNCHANGED <<variant, files, pdfDoc, numPages, pageNumber, isDrawing, draft,
                 confirmUI, pageRects, rects, rectActions, templateFileIdx, uploads,
                 nextId, nUploads, cleared>>

\* "Remove active": drop the active file and reset document, page and rectangles.
RemoveActive1 ==
  /\ variant = "App1"
  /\ ActiveFile # 0
  /\ files' = RemoveAt(files, activeIdx)
  /\ activeIdx' = 1
  /\ pdfDoc' = 0
  /\ numPages' = 0
  /\ pageNumber' = 1
  /\ pageRects' = <<>>
  /\ loadOf' = IF Len(files) > 1 THEN 1 ELSE 0
  /\ cleared' = NoCleared
  /\ loadingPdf' = IF Len(files) > 1 THEN TRUE ELSE loadingPdf
  /\ UNCHANGED app0Vars
  /\ UNCHANGED <<variant, isDrawing, draft, confirmUI, rects, rectActions,
                 templateFileIdx, uploads, nextId, nUploads>>

\* load(): getDocument resolved and the effect was not cancelled.
LoadDone1 ==
  /\ variant = "App1"
  /\ loadOf # 0
  /\ pdfDoc' = files[loadOf]
  /\ numPages' = PagesOf(files[loadOf])
  /\ pageNumber' = 1
  /\ loadOf' = 0
  /\ loadingPdf' = FALSE
  /\ UNCHANGED app0Vars
  /\ UNCHANGED <<variant, files, activeIdx, isDrawing, draft, confirmUI, pageRects,
                 rects, rectActions, templateFileIdx, uploads, nextId, nUploads,
                 cleared>>

\* load(): arrayBuffer or getDocument rejected (console.error only).
LoadFail1 ==
  /\ variant = "App1"
  /\ loadOf # 0
  /\ loadOf' = 0
  /\ loadingPdf' = FALSE
  /\ UNCHANGED app0Vars
  /\ UNCHANGED <<variant, files, activeIdx, pdfDoc, numPages, pageNumber, isDrawing,
                 draft, confirmUI, pageRects, rects, rectActions, templateFileIdx,
                 uploads, nextId, nUploads, cleared>>

\* "Prev" (disabled without a document or on page 1).
PrevPage1 ==
  /\ variant = "App1"
  /\ pdfDoc # 0 /\ pageNumber > 1
  /\ pageNumber' = IF pageNumber - 1 > 1 THEN pageNumber - 1 ELSE 1
  /\ UNCHANGED app0Vars
  /\ UNCHANGED <<variant, loadingPdf, files, activeIdx, loadOf, pdfDoc, numPages, isDrawing, draft,
                 confirmUI, pageRects, rects, rectActions, templateFileIdx, uploads,
                 nextId, nUploads, cleared>>

\* "Next" (disabled without a document or on the last page).
NextPage1 ==
  /\ variant = "App1"
  /\ pdfDoc # 0 /\ pageNumber < numPages
  /\ pageNumber' = IF pageNumber + 1 < numPages THEN pageNumber + 1 ELSE numPages
  /\ UNCHANGED app0Vars
  /\ UNCHANGED <<variant, loadingPdf, files, activeIdx, loadOf, pdfDoc, numPages, isDrawing, draft,
                 confirmUI, pageRects, rects, rectActions, templateFileIdx, uploads,
                 nextId, nUploads, cleared>>

\* handlePointerDown at the point p: start = current = p.
PointerDown1(p) ==
  /\ variant = "App1"
  /\ isDrawing' = TRUE
  /\ startPos' = p
  /\ currentPos' = p
  /\ UNCHANGED <<redactionZones, pointerPos>>
  /\ UNCHANGED <<variant, loadingPdf, files, activeIdx, loadOf, pdfDoc, numPages, pageNumber,
                 draft, confirmUI, pageRects, rects, rectActions, templateFileIdx,
                 uploads, nextId, nUploads, cleared>>

\* handlePointerMove to the point p.
PointerMove1(p) ==
  /\ variant = "App1"
  /\ isDrawing
  /\ currentPos' = p
  /\ UNCHANGED <<startPos, redactionZones, pointerPos>>
  /\ UNCHANGED <<variant, loadingPdf, files, activeIdx, loadOf, pdfDoc, numPages, pageNumber,
                 isDrawing, draft, confirmUI, pageRects, rects, rectActions,
                 templateFileIdx, uploads, nextId, nUploads, cleared>>

\* handlePointerUp: the rectangle between startPosRef and currentPosRef.
DragRect1 ==
  [x1 |-> startPos[1], y1 |-> startPos[2], x2 |-> currentPos[1], y2 |-> currentPos[2]]

\* handlePointerUp: nr.x1n !== nr.x2n && nr.y1n !== nr.y2n
HasArea(nr) == ~FracEq(nr.x1n, nr.x2n) /\ ~FracEq(nr.y1n, nr.y2n)

\* A handlePointerUp that stores its rectangles as logo rectangles.
NewRect1AsLogo(id, nr) ==
  [id |-> id, nr |-> nr, kind |-> "logo", logoFile |-> 1, doc |-> ActiveFile]

\* The rectangle handlePointerUp pushes: { nr, kind: "redact", logoFile: undefined },
\* with its commit number and the document on display.
NewRect1(id, nr) ==
  [id |-> id, nr |-> nr, kind |-> "redact", logoFile |-> 0, doc |-> ActiveFile]

\* handlePointerUp (also bound to pointerleave): normalize the drag against the
\* overlay size and push it on the active page when it has an area.
PointerUp1 ==
  /\ variant = "App1"
  /\ isDrawing
  /\ isDrawing' = FALSE
  /\ IF OverlayW = 0 \/ OverlayH = 0
       THEN UNCHANGED <<nextId, pageRects>>
       ELSE LET nr == normalizeRect(DragRect1, OverlayW, OverlayH) IN
              IF HasArea(nr)
                THEN /\ nextId < MaxCommits
                     /\ Cardinality(Stored1) < rectCap
                     /\ nextId' = nextId + 1
                     /\ pageRects' = Put(pageRects, pageNumber,
                          Append(PageArr(pageNumber), NewRect1(nextId + 1, nr)))
                ELSE UNCHANGED <<nextId, pageRects>>
  /\ UNCHANGED app0Vars
  /\ UNCHANGED <<variant, loadingPdf, files, activeIdx, loadOf, pdfDoc, numPages, pageNumber,
                 draft, confirmUI, rects, rectActions, templateFileIdx, uploads,
                 nUploads, cleared>>

\* removeRect(idx) on the active page.
RemoveRect1(idx) ==
  /\ variant = "App1"
  /\ idx \in 1..Len(PageArr(pageNumber))
  /\ pageRects' = Put(pageRects, pageNumber, RemoveAt(PageArr(pageNumber), idx))
  /\ cleared' = [cleared EXCEPT ![PageArr(pageNumber)[idx].id] = 0]
  /\ UNCHANGED app0Vars
  /\ UNCHANGED <<variant, loadingPdf, files, activeIdx, loadOf, pdfDoc, numPages, pageNumber,
                 isDrawing, draft, confirmUI, rects, rectActions, templateFileIdx,
                 uploads, nextId, nUploads>>

\* updateRectKind that keeps the logo file whatever the new kind.
WithKindKeepingFile(r, kind) == [r EXCEPT !.kind = kind]

\* The rectangle that updateRectKind(idx, kind) leaves at idx: the logo file is
\* kept only when the new kind is logo.
WithKind(r, kind) ==
  [r EXCEPT !.kind = kind, !.logoFile = IF kind = "logo" THEN r.logoFile ELSE 0]

\* updateRectKind(idx, kind), from the kind <select> of a listed rectangle.
UpdateRectKind1(idx, kind) ==
  /\ variant = "App1"
  /\ idx \in 1..Len(PageArr(pageNumber))
  /\ LET r == PageArr(pageNumber)[idx] IN
       /\ kind # r.kind
       /\ pageRects' = [pageRects EXCEPT ![pageNumber][idx] = WithKind(r, kind)]
       /\ cleared' = IF kind = "redact" /\ r.logoFile # 0
                       THEN [cleared EXCEPT ![r.id] = r.logoFile] ELSE cleared
  /\ UNCHANGED app0Vars
  /\ UNCHANGED <<variant, loadingPdf, files, activeIdx, loadOf, pdfDoc, numPages, pageNumber,
                 isDrawing, draft, confirmUI, rects, rectActions, templateFileIdx,
                 uploads, nextId, nUploads>>

\* setRectLogoFile(idx, file), from the upload input shown for a logo rectangle;
\* f = 0 is an emptied selection.
SetRectLogoFile1(idx, f) ==
  /\ variant = "App1"
  /\ idx \in 1..Len(PageArr(pageNumber))
  /\ LET r == PageArr(pageNumber)[idx] IN
       /\ r.kind = "logo"
       /\ pageRects' = [pageRects EXCEPT ![pageNumber][idx].logoFile = f]
       /\ cleared' = IF f # 0 THEN [cleared EXCEPT ![r.id] = 0] ELSE cleared
  /\ UNCHANGED app0Vars
  /\ UNCHANGED <<variant, loadingPdf, files, activeIdx, loadOf, pdfDoc, numPages, pageNumber,
                 isDrawing, draft, confirmUI, rects, rectActions, templateFileIdx,
                 uploads, nextId, nUploads>>

\* clearPageRects that keeps nothing but the emptied page.
WithOnlyPageCleared(pr, p) == [q \in {p} |-> <<>>]

\* clearPageRects: { ...prev, [pageNumber]: [] }
WithPageCleared(pr, p) == Put(pr, p, <<>>)

\* clearPageRects ("Clear", disabled when the page has no rectangle).
ClearPageRects1 ==
  /\ variant = "App1"
  /\ PageArr(pageNumber) # <<>>
  /\ pageRects' = WithPageCleared(pageRects, pageNumber)
  /\ cleared' = [i \in Ids |-> IF \E j \in DOMAIN PageArr(pageNumber) :
                                    PageArr(pageNumber)[j].id = i
                                THEN 0 ELSE cleared[i]]
  /\ UNCHANGED app0Vars
  /\ UNCHANGED <<variant, loadingPdf, files, activeIdx, loadOf, pdfDoc, numPages, pageNumber,
                 isDrawing, draft, confirmUI, rects, rectActions, templateFileIdx,
                 uploads, nextId, nUploads>>

\* -------------------------------------------------- PDFSanitizerApp.jsx
\* rectActions[id], with the fields a missing entry or a missing key reads as
\* (action: redact, no file, no key).
NoAction == [action |-> "redact", logoFile |-> 0, logoKey |-> 0]
ActionOf(id) == IF id \in DOMAIN rectActions THEN rectActions[id] ELSE NoAction

RectIds == {rects[j].id : j \in DOMAIN rects}

\* The file buttons: setActiveIndex(i).
SetActiveIndexA(i) ==
  /\ variant = "App"
  /\ i \in DOMAIN files
  /\ i # activeIdx
  /\ activeIdx' = i
  /\ UNCHANGED app0Vars
  /\ UNCHANGED <<variant, loadingPdf, files, loadOf, pdfDoc, numPages, pageNumber, isDrawing, draft,
                 confirmUI, pageRects, rects, rectActions, templateFileIdx, uploads,
                 nextId, nUploads, cleared>>

\* Math.floor in the place of Math.round.
RoundDown(n) == n \div Unit

\* Math.round of a length given in 1/Unit px, in px.
Round(n) == (2 * n + Unit) \div (2 * Unit)

\* onPointerUp: draft.w < 4 || draft.h < 4
TooSmallA(d) == d[3] < 4 * Unit \/ d[4] < 4 * Unit

\* onPointerDown at the point p: startRef = p, drawingRef = true,
\* draft = {x, y, w: 0, h: 0}.
OnPointerDownA(p) ==
  /\ variant = "App"
  /\ isDrawing' = TRUE
  /\ startPos' = p
  /\ draft' = <<p[1], p[2], 0, 0>>
  /\ UNCHANGED <<currentPos, redactionZones, pointerPos>>
  /\ UNCHANGED <<variant, loadingPdf, files, activeIdx, loadOf, pdfDoc, numPages, pageNumber,
                 confirmUI, pageRects, rects, rectActions, templateFileIdx, uploads,
                 nextId, nUploads, cleared>>

\* onPointerMove to the point p: the draft spans startRef and p.
OnPointerMoveA(p) ==
  /\ variant = "App"
  /\ isDrawing
  /\ draft' = <<Min(startPos[1], p[1]), Min(startPos[2], p[2]),
                Abs(p[1] - startPos[1]), Abs(p[2] - startPos[2])>>
  /\ UNCHANGED app0Vars
  /\ UNCHANGED <<variant, loadingPdf, files, activeIdx, loadOf, pdfDoc, numPages, pageNumber,
                 isDrawing, confirmUI, pageRects, rects, rectActions, templateFileIdx,
                 uploads, nextId, nUploads, cleared>>

\* An onPointerUp that stores the draft at once, as handlePointerUp of
\* PDFSanitizerApp1.jsx does.
RectsOnReleaseCommitted(rs, d) ==
  IF d = <<>> THEN rs
  ELSE Append(rs, [id |-> 0, x |-> Round(d[1]), y |-> Round(d[2]), w |-> Round(d[3]),
                   h |-> Round(d[4]), fileIdx |-> activeIdx, page |-> 0])

\* rects after onPointerUp: the handler calls setDraft and setConfirmUI only.
RectsOnRelease(rs, d) == rs

\* onPointerUp: a missing draft or one under 4px is dropped, otherwise the
\* confirm UI opens.
OnPointerUpA ==
  /\ variant = "App"
  /\ isDrawing
  /\ isDrawing' = FALSE
  /\ IF draft = <<>> \/ TooSmallA(draft)
       THEN draft' = <<>> /\ confirmUI' = FALSE
       ELSE draft' = draft /\ confirmUI' = TRUE
  /\ rects' = RectsOnRelease(rects, draft)
  /\ UNCHANGED app0Vars
  /\ UNCHANGED <<variant, loadingPdf, files, activeIdx, loadOf, pdfDoc, numPages, pageNumber,
                 pageRects, rectActions, templateFileIdx, uploads, nextId,
                 nUploads, cleared>>

\* The rectangle confirmDraft stores for the draft d: rounded pixel coordinates,
\* the active file and the page.
NewRect(id, d) ==
  [id |-> id, x |-> Round(d[1]), y |-> Round(d[2]), w |-> Round(d[3]),
   h |-> Round(d[4]), fileIdx |-> activeIdx, page |-> 0]

\* confirmDraft, from the Confirm button shown while confirmUI and draft are
\* set: append the rectangle and give it the redact action.
ConfirmDraftA ==
  /\ variant = "App"
  /\ confirmUI /\ draft # <<>>
  /\ nextId < MaxCommits
  /\ Len(rects) < rectCap
  /\ nextId' = nextId + 1
  /\ templateFileIdx' = IF templateFileIdx = 0 THEN activeIdx ELSE templateFileIdx
  /\ rects' = Append(rects, NewRect(nextId + 1, draft))
  /\ rectActions' = Put(rectActions, nextId + 1, NoAction)
  /\ draft' = <<>>
  /\ confirmUI' = FALSE
  /\ UNCHANGED app0Vars
  /\ UNCHANGED <<variant, loadingPdf, files, activeIdx, loadOf, pdfDoc, numPages, pageNumber,
                 isDrawing, pageRects, uploads, nUploads, cleared>>

\* cancelDraft, from the Cancel button.
CancelDraftA ==
  /\ variant = "App"
  /\ confirmUI /\ draft # <<>>
  /\ draft' = <<>>
  /\ confirmUI' = FALSE
  /\ UNCHANGED app0Vars
  /\ UNCHANGED <<variant, loadingPdf, files, activeIdx, loadOf, pdfDoc, numPages, pageNumber,
                 isDrawing, pageRects, rects, rectActions, templateFileIdx, uploads,
                 nextId, nUploads, cleared>>

\* removeRect that drops the first rectangle, whatever its id.
WithoutFirst(seq, id) == IF seq = <<>> THEN seq ELSE Tail(seq)

\* prev.filter(r => r.id !== id)
WithoutId(seq, id) == SelectSeq(seq, LAMBDA r : r.id # id)

\* removeRect(id): drop the rectangle and its action.
RemoveRectA(id) ==
  /\ variant = "App"
  /\ id \in RectIds
  /\ rects' = WithoutId(rects, id)
  /\ rectActions' = Drop(rectActions, id)
  /\ cleared' = [cleared EXCEPT ![id] = 0]
  /\ UNCHANGED app0Vars
  /\ UNCHANGED <<variant, loadingPdf, files, activeIdx, loadOf, pdfDoc, numPages, pageNumber,
                 isDrawing, draft, confirmUI, pageRects, templateFileIdx, uploads,
                 nextId, nUploads>>

\* The entry the action selector writes: { action, logoFile }, the storage key
\* is not carried over.
Selected(prev, action) ==
  [action |-> action,
   logoFile |-> IF action = "logo" THEN prev.logoFile ELSE 0,
   logoKey |-> 0]

\* The action <select> of a listed rectangle.
SetActionA(id, action) ==
  /\ variant = "App"
  /\ id \in RectIds
  /\ action # ActionOf(id).action
  /\ rectActions' = Put(rectActions, id, Selected(ActionOf(id), action))
  /\ cleared' = IF action = "redact" /\ ActionOf(id).logoKey # 0
                  THEN [cleared EXCEPT ![id] = ActionOf(id).logoKey] ELSE cleared
  /\ UNCHANGED app0Vars
  /\ UNCHANGED <<variant, loadingPdf, files, activeIdx, loadOf, pdfDoc, numPages, pageNumber,
                 isDrawing, draft, confirmUI, pageRects, rects, templateFileIdx,
                 uploads, nextId, nUploads>>

\* The logo input emptied: { action: "logo", logoFile: null, logoKey: undefined }.
UploadNoneA(id) ==
  /\ variant = "App"
  /\ id \in RectIds
  /\ ActionOf(id).action = "logo"
  /\ ActionOf(id).logoKey # 0
  /\ rectActions' = Put(rectActions, id, [NoAction EXCEPT !.action = "logo"])
  /\ UNCHANGED app0Vars
  /\ UNCHANGED <<variant, loadingPdf, files, activeIdx, loadOf, pdfDoc, numPages, pageNumber,
                 isDrawing, draft, confirmUI, pageRects, rects, templateFileIdx,
                 uploads, nextId, nUploads, cleared>>

\* The logo input given a file: POST /api/upload-logo is sent.
UploadStartA(id, a) ==
  /\ variant = "App"
  /\ id \in RectIds
  /\ ActionOf(id).action = "logo"
  /\ nUploads < MaxUploads
  /\ nUploads' = nUploads + 1
  /\ uploads' = uploads \cup {<<id, a>>}
  /\ UNCHANGED app0Vars
  /\ UNCHANGED <<variant, loadingPdf, files, activeIdx, loadOf, pdfDoc, numPages, pageNumber,
                 isDrawing, draft, confirmUI, pageRects, rects, rectActions,
                 templateFileIdx, nextId, cleared>>

\* The upload answered with a key: { action: "logo", logoFile: f, logoKey: key }
\* is written for the rectangle id the handler closed over.
UploadDoneA(id, a) ==
  /\ variant = "App"
  /\ <<id, a>> \in uploads
  /\ uploads' = uploads \ {<<id, a>>}
  /\ rectActions' = Put(rectActions, id, [action |-> "logo", logoFile |-> a, logoKey |-> a])
  /\ cleared' = [cleared EXCEPT ![id] = 0]
  /\ UNCHANGED app0Vars
  /\ UNCHANGED <<variant, loadingPdf, files, activeIdx, loadOf, pdfDoc, numPages, pageNumber,
                 isDrawing, draft, confirmUI, pageRects, rects, templateFileIdx,
                 nextId, nUploads>>

\* The upload failed: alert, nothing stored.
UploadFailA(id, a) ==
  /\ variant = "App"
  /\ <<id, a>> \in uploads
  /\ uploads' = uploads \ {<<id, a>>}
  /\ UNCHANGED app0Vars
  /\ UNCHANGED <<variant, loadingPdf, files, activeIdx, loadOf, pdfDoc, numPages, pageNumber,
                 isDrawing, draft, confirmUI, pageRects, rects, rectActions,
                 templateFileIdx, nextId, nUploads, cleared>>

\* ======================================================================
\* Building the submission
\* ======================================================================
\* ------------------------------------------------- PDFSanitizerApp1.jsx
\* The rectangles buildPayloadAndLogos walks on pages 1..n, in its loop order,
\* each with the page it was found on.
RECURSIVE Walk(_)
Walk(n) ==
  IF n = 0 THEN <<>>
  ELSE Walk(n - 1) \o [j \in 1..Len(PageArr(n)) |-> [r |-> PageArr(n)[j], p |-> n]]

\* if (!pdfDoc) return { rectangles: [], logoUploads: [] }
Walked1 == IF pdfDoc = 0 THEN <<>> ELSE Walk(numPages)

\* rectangles.push({ rect_idx, page: p - 1, kind, ... }); id is the rectangle's
\* commit number, carried along to name it.
Rectangles1 ==
  [k \in 1..Len(Walked1) |->
     [rect_idx |-> k - 1, page |-> Walked1[k].p - 1, kind |-> Walked1[k].r.kind,
      id |-> Walked1[k].r.id]]

\* A builder that uploads for every logo rectangle, with or without a file.
IsLogoUploadAnyFile(r) == r.kind = "logo"

\* r.kind === "logo" && r.logoFile instanceof File
IsLogoUpload(r) == r.kind = "logo" /\ r.logoFile # 0

\* A builder that numbers its uploads from 1 while its zones are numbered from 0.
LogoUploadFromOne(r, rect_idx) ==
  [rect_idx |-> rect_idx + 1, field |-> <<"logo_", rect_idx + 1>>, file |-> r.logoFile]

\* logoUploads.push({ rect_idx, field: `logo_${rect_idx}`, file: r.logoFile })
LogoUpload(r, rect_idx) ==
  [rect_idx |-> rect_idx, field |-> <<"logo_", rect_idx>>, file |-> r.logoFile]

LogoUploads1 ==
  {LogoUpload(Walked1[k].r, k - 1) : k \in {j \in 1..Len(Walked1) : IsLogoUpload(Walked1[j].r)}}

\* onSubmit: image_map[u.rect_idx] = u.field
ImageMap1 ==
  [k \in {u.rect_idx : u \in LogoUploads1} |->
     (CHOOSE u \in LogoUploads1 : u.rect_idx = k).field]

\* onSubmit: form.append(u.field, u.file, u.file.name)
FormFiles1 ==
  [f \in {u.field : u \in LogoUploads1} |->
     (CHOOSE u \in LogoUploads1 : u.field = f).file]

\* -------------------------------------------------- PDFSanitizerApp.jsx
\* runSanitization: one zone per element of rects, in array order.
ZonesA ==
  [k \in 1..Len(rects) |->
     [page |-> rects[k].page, file_idx |-> rects[k].fileIdx, id |-> rects[k].id]]

\* a?.action === "logo" with a logoKey
HasLogoKey(a) == a.action = "logo" /\ a.logoKey # 0

\* const idxInZones = template_zones.push(zone) - 1
IdxInZones(k) == k - 1

\* image_map[idxInZones] = a.logoKey
ImageMapA ==
  [i \in {IdxInZones(k) : k \in {j \in 1..Len(rects) : HasLogoKey(ActionOf(rects[j].id))}} |->
     ActionOf(rects[i + 1].id).logoKey]

\* ---------------------------------------------------------- both variants
\* The zone list of a submission built in the current state.
Zones == IF variant = "App1" THEN Rectangles1 ELSE ZonesA

\* The asset the submission carries for zone index i (0: none).
AssetAt(i) ==
  IF variant = "App1"
    THEN IF i \in DOMAIN ImageMap1 /\ ImageMap1[i] \in DOMAIN FormFiles1
           THEN FormFiles1[ImageMap1[i]] ELSE 0
    ELSE IF i \in DOMAIN ImageMapA THEN ImageMapA[i] ELSE 0

ImageMapKeys == IF variant = "App1" THEN DOMAIN ImageMap1 ELSE DOMAIN ImageMapA

\* The same view of rects and rectActions.
StoredA ==
  {[id |-> rects[j].id, page |-> rects[j].page, doc |-> rects[j].fileIdx,
    kind |-> ActionOf(rects[j].id).action, asset |-> ActionOf(rects[j].id).logoKey] :
      j \in DOMAIN rects}

Stored == IF variant = "App1" THEN Stored1 ELSE StoredA

\* drawOverlay / the overlay effect: the ids of the rectangles painted.
Painted ==
  IF variant = "App1"
    THEN {PageArr(pageNumber)[j].id : j \in DOMAIN PageArr(pageNumber)}
    ELSE {rects[j].id : j \in {i \in DOMAIN rects : rects[i].fileIdx = activeIdx}}

\* The rectangle list of the side panel: the ids of the rectangles listed.
Listed ==
  IF variant = "App1"
    THEN {PageArr(pageNumber)[j].id : j \in DOMAIN PageArr(pageNumber)}
    ELSE RectIds

\* ------------------------------------------------- PDFSanitizerApp0.jsx
\* The store variables App0 has no counterpart for.
notApp0Vars == <<files, activeIdx, loadOf, loadingPdf, draft, confirmUI, pageRects, rects,
                 rectActions, templateFileIdx, uploads, nextId, nUploads, cleared>>

\* chooseTemplate and the load effect: the template is loaded, page 1 is shown
\* and the canvases of step 2 are mounted.
TemplateLoaded0 ==
  /\ variant = "App0"
  /\ pdfDoc = 0
  /\ pdfDoc' = 1
  /\ numPages' = PagesOf(1)
  /\ pageNumber' = 1
  /\ UNCHANGED <<variant, isDrawing, app0Vars, notApp0Vars>>

\* The page buttons: setCurrentPage(currentPage - 1) / (currentPage + 1).
SetCurrentPage0(p) ==
  /\ variant = "App0"
  /\ pdfDoc # 0
  /\ p \in 1..numPages
  /\ p \in {pageNumber - 1, pageNumber + 1}
  /\ pageNumber' = p
  /\ UNCHANGED <<variant, pdfDoc, numPages, isDrawing, app0Vars, notApp0Vars>>

\* handleMouseDown at the point p: only isDrawingRef and startPosRef are set.
MouseDown0(p) ==
  /\ variant = "App0"
  /\ pdfDoc # 0
  /\ isDrawing' = TRUE
  /\ startPos' = p
  /\ pointerPos' = p
  /\ UNCHANGED <<variant, pdfDoc, numPages, pageNumber, currentPos, redactionZones,
                 notApp0Vars>>

\* handleMouseMove to the point p.
MouseMove0(p) ==
  /\ variant = "App0"
  /\ pdfDoc # 0
  /\ isDrawing
  /\ currentPos' = p
  /\ pointerPos' = p
  /\ UNCHANGED <<variant, pdfDoc, numPages, pageNumber, isDrawing, startPos,
                 redactionZones, notApp0Vars>>

\* handleMouseUp: the box between startPosRef and currentPosRef is appended to
\* redactionZones when w > 5 && h > 5.
MouseUp0 ==
  /\ variant = "App0"
  /\ pdfDoc # 0
  /\ isDrawing
  /\ isDrawing' = FALSE
  /\ LET z == Zone0(startPos, currentPos, pageNumber) IN
       IF Accept0(z)
         THEN /\ Len(redactionZones) < rectCap
              /\ redactionZones' = Append(redactionZones, z)
         ELSE UNCHANGED redactionZones
  /\ UNCHANGED <<variant, pdfDoc, numPages, pageNumber, startPos, currentPos,
                 pointerPos, notApp0Vars>>

\* ======================================================================
\* Specification of the store
\* ======================================================================
\* Pointer positions of the store's behaviours: a drag from the corner of the
\* overlay that stays there, or that ends far enough to be kept.
Origin == <<0, 0>>
Far1 == <<OverlayW, OverlayH>>
FarA == <<4 * Unit, 4 * Unit>>

InitStore ==
  /\ variant \in {"App1", "App"}
  /\ InitRenderVars
  /\ InitStoreVars
  /\ geo = GeoIdle
  /\ csv = CsvIdle
  /\ rectCap = MaxRects

NextStore ==
  /\ UNCHANGED <<renderVars, lastOp, geo, rectCap, submitVars, csv>>
  /\ \/ \E d \in Docs : AddFiles1(d)
     \/ \E i \in Docs : SelectFile1(i)
     \/ RemoveActive1
     \/ LoadDone1
     \/ LoadFail1
     \/ PrevPage1
     \/ NextPage1
     \/ PointerDown1(Origin)
     \/ \E p \in {Origin, Far1} : PointerMove1(p)
     \/ PointerUp1
     \/ \E idx \in Ids : RemoveRect1(idx)
     \/ \E idx \in Ids, kind \in {"redact", "logo"} : UpdateRectKind1(idx, kind)
     \/ \E idx \in Ids, f \in Assets \cup {0} : SetRectLogoFile1(idx, f)
     \/ ClearPageRects1
     \/ \E i \in Docs : SetActiveIndexA(i)
     \/ OnPointerDownA(Origin)
     \/ \E p \in {Origin, FarA} : OnPointerMoveA(p)
     \/ OnPointerUpA
     \/ ConfirmDraftA
     \/ CancelDraftA
     \/ \E id \in Ids : RemoveRectA(id)
     \/ \E id \in Ids, action \in {"redact", "logo"} : SetActionA(id, action)
     \/ \E id \in Ids : UploadNoneA(id)
     \/ \E id \in Ids, a \in Assets : UploadStartA(id, a)
     \/ \E id \in Ids, a \in Assets : UploadDoneA(id, a)
     \/ \E id \in Ids, a \in Assets : UploadFailA(id, a)

SpecStore == InitStore /\ [][NextStore]_vars

\* ======================================================================
\* Specification of the drawing steps
\* ======================================================================
\* Pointer positions tried on the overlay of App0: drags of 0, 5 and 6 px.
Points0 == {<<x, y>> : x \in {0, 5, 6}, y \in {0, 6}}

\* Pointer positions of App1, in CSS px of the displayed overlay, which is
\* stretched to its container: inside the canvas size and beyond it.
Down1 == {Origin, <<OverlayW + 1, 1>>}
Move1 == {<<0, OverlayH \div 2>>, <<OverlayW \div 2, 0>>,
          <<OverlayW \div 2, OverlayH \div 2>>, <<OverlayW + 2, OverlayH \div 2>>}

\* Pointer positions of App, in 1/Unit px: drags just under, at and just over
\* 4 px.
DownA == {Origin, <<1, 1>>}
MoveA == {<<x, y>> : x \in {0, 4 * Unit - 1, 4 * Unit, 4 * Unit + 1},
                     y \in {0, 4 * Unit + 1}}

InitEdit ==
  /\ variant \in {"App0", "App1", "App"}
  /\ InitRenderVars
  /\ InitStoreVars
  /\ geo = GeoIdle
  /\ csv = CsvIdle
  /\ rectCap = MaxRects

\* Each step records in lastOp the handler that ran.
NextEdit ==
  /\ UNCHANGED <<renderVars, geo, rectCap, submitVars, csv>>
  /\ \/ TemplateLoaded0 /\ lastOp' = "load"
     \/ (\E p \in 1..2 : SetCurrentPage0(p)) /\ lastOp' = "page"
     \/ (\E p \in Points0 : MouseDown0(p)) /\ lastOp' = "down"
     \/ (\E p \in Points0 : MouseMove0(p)) /\ lastOp' = "move"
     \/ MouseUp0 /\ lastOp' = "release"
     \/ AddFiles1(1) /\ lastOp' = "add"
     \/ LoadDone1 /\ lastOp' = "load"
     \/ PrevPage1 /\ lastOp' = "page"
     \/ NextPage1 /\ lastOp' = "page"
     \/ (\E p \in Down1 : PointerDown1(p)) /\ lastOp' = "down"
     \/ (\E p \in Move1 : PointerMove1(p)) /\ lastOp' = "move"
     \/ PointerUp1 /\ lastOp' = "release"
     \/ (\E idx \in Ids : RemoveRect1(idx)) /\ lastOp' = "remove"
     \/ ClearPageRects1 /\ lastOp' = "clear"
     \/ (\E p \in DownA : OnPointerDownA(p)) /\ lastOp' = "down"
     \/ (\E p \in MoveA : OnPointerMoveA(p)) /\ lastOp' = "move"
     \/ OnPointerUpA /\ lastOp' = "release"
     \/ ConfirmDraftA /\ lastOp' = "confirm"
     \/ CancelDraftA /\ lastOp' = "cancel"
     \/ (\E id \in Ids : RemoveRectA(id)) /\ lastOp' = "remove"

SpecEdit == InitEdit /\ [][NextEdit]_vars

\* ======================================================================
\* Specification of the listing order: the store with room for one more
\* rectangle, a single document, and drags that are always kept; lastOp tells
\* a clearPageRects step from the others
\* ======================================================================
InitOrder ==
  /\ variant \in {"App1", "App"}
  /\ InitRenderVars
  /\ InitStoreVars
  /\ geo = GeoIdle
  /\ csv = CsvIdle
  /\ rectCap = MaxRects + 1

NextOrder ==
  /\ UNCHANGED <<renderVars, geo, rectCap, submitVars, csv>>
  /\ \/ AddFiles1(1) /\ lastOp' = "other"
     \/ LoadDone1 /\ lastOp' = "other"
     \/ PrevPage1 /\ lastOp' = "other"
     \/ NextPage1 /\ lastOp' = "other"
     \/ PointerDown1(Origin) /\ lastOp' = "other"
     \/ PointerMove1(Far1) /\ lastOp' = "other"
     \/ PointerUp1 /\ lastOp' = "other"
     \/ (\E idx \in Ids : RemoveRect1(idx)) /\ lastOp' = "other"
     \/ (\E idx \in Ids, kind \in {"redact", "logo"} : UpdateRectKind1(idx, kind))
          /\ lastOp' = "other"
     \/ (\E idx \in Ids, f \in Assets \cup {0} : SetRectLogoFile1(idx, f))
          /\ lastOp' = "other"
     \/ ClearPageRects1 /\ lastOp' = "clear"
     \/ (\E i \in Docs : SetActiveIndexA(i)) /\ lastOp' = "other"
     \/ OnPointerDownA(Origin) /\ lastOp' = "other"
     \/ OnPointerMoveA(FarA) /\ lastOp' = "other"
     \/ OnPointerUpA /\ lastOp' = "other"
     \/ ConfirmDraftA /\ lastOp' = "other"
     \/ (\E id \in Ids : RemoveRectA(id)) /\ lastOp' = "other"
     \/ (\E id \in Ids, action \in {"redact", "logo"} : SetActionA(id, action))
          /\ lastOp' = "other"
     \/ (\E id \in Ids, a \in Assets : UploadStartA(id, a)) /\ lastOp' = "other"
     \/ (\E id \in Ids, a \in Assets : UploadDoneA(id, a)) /\ lastOp' = "other"

SpecOrder == InitOrder /\ [][NextOrder]_vars

\* ======================================================================
\* Submitting
\* ======================================================================
\* How a request to /api/sanitize ends: an ok response, a response with an error
\* status, or a fetch that rejects.
Outcomes == {"ok", "status", "rejected"}

\* A Run button that is disabled only while no file is selected.
RunDisabledNoFiles1 == files = <<>>

\* disabled={!files.length || submitting} of the Run button.
RunDisabled1 == files = <<>> \/ submitting

\* A handler that empties the store once the service has answered ok.
AfterSubmitReset(store, outcome) == IF outcome = "ok" THEN <<>> ELSE store

\* The rectangles after a submission has ended: neither handler calls a setter
\* of the store, whatever the outcome.
AfterSubmit(store, outcome) == store

\* ------------------------------------------------- PDFSanitizerApp1.jsx
\* onSubmit up to the fetch (the button is disabled without files and while
\* submitting): setSubmitting(true), the payload is built and sent.
OnSubmit1 ==
  /\ variant = "App1"
  /\ ~RunDisabled1
  /\ submissions < MaxSubmits
  /\ submitting' = TRUE
  /\ submissions' = submissions + 1
  /\ UNCHANGED <<variant, storeVars, app0Vars>>

\* onSubmit from the answer on: the response is saved or the error is caught and
\* shown; finally setSubmitting(false).
SubmitSettled1(outcome) ==
  /\ variant = "App1"
  /\ submissions > 0
  /\ submitting' = FALSE
  /\ submissions' = submissions - 1
  /\ pageRects' = AfterSubmit(pageRects, outcome)
  /\ UNCHANGED app0Vars
  /\ UNCHANGED <<variant, loadingPdf, files, activeIdx, loadOf, pdfDoc, numPages, pageNumber,
                 isDrawing, draft, confirmUI, rects, rectActions, templateFileIdx,
                 uploads, nextId, nUploads, cleared>>

\* -------------------------------------------------- PDFSanitizerApp.jsx
\* runSanitization up to the fetch (it returns at once without files).  One call
\* at a time is followed.
RunSanitizationA ==
  /\ variant = "App"
  /\ files # <<>>
  /\ ~submitting
  /\ submitting' = TRUE
  /\ UNCHANGED submissions
  /\ UNCHANGED <<variant, storeVars, app0Vars>>

\* runSanitization from the answer on: the outputs are opened, or an alert is
\* shown, or the rejection of fetch ends the call.
RunSettledA(outcome) ==
  /\ variant = "App"
  /\ submitting
  /\ submitting' = FALSE
  /\ UNCHANGED submissions
  /\ rects' = AfterSubmit(rects, outcome)
  /\ UNCHANGED app0Vars
  /\ UNCHANGED <<variant, loadingPdf, files, activeIdx, loadOf, pdfDoc, numPages, pageNumber,
                 isDrawing, draft, confirmUI, pageRects, rectActions, templateFileIdx,
                 uploads, nextId, nUploads, cleared>>

\* ------------------------------------------------------------ SpecSubmit
\* Editing and submitting interleaved; lastOp names the submission step taken.
InitSubmit ==
  /\ variant \in {"App1", "App"}
  /\ InitRenderVars
  /\ InitStoreVars
  /\ geo = GeoIdle
  /\ csv = CsvIdle
  /\ rectCap = MaxRects

NextSubmit ==
  /\ UNCHANGED <<renderVars, geo, rectCap, csv>>
  /\ \/ AddFiles1(1) /\ lastOp' = "other" /\ UNCHANGED submitVars
     \/ LoadDone1 /\ lastOp' = "other" /\ UNCHANGED submitVars
     \/ PointerDown1(Origin) /\ lastOp' = "other" /\ UNCHANGED submitVars
     \/ PointerMove1(Far1) /\ lastOp' = "other" /\ UNCHANGED submitVars
     \/ PointerUp1 /\ lastOp' = "other" /\ UNCHANGED submitVars
     \/ (\E idx \in Ids : RemoveRect1(idx)) /\ lastOp' = "other" /\ UNCHANGED submitVars
     \/ (\E idx \in Ids, kind \in {"redact", "logo"} : UpdateRectKind1(idx, kind))
          /\ lastOp' = "other" /\ UNCHANGED submitVars
     \/ (\E idx \in Ids, f \in Assets \cup {0} : SetRectLogoFile1(idx, f))
          /\ lastOp' = "other" /\ UNCHANGED submitVars
     \/ OnSubmit1 /\ lastOp' = "submit"
     \/ (\E outcome \in Outcomes : SubmitSettled1(outcome) /\ lastOp' = outcome)
     \/ OnPointerDownA(Origin) /\ lastOp' = "other" /\ UNCHANGED submitVars
     \/ OnPointerMoveA(FarA) /\ lastOp' = "other" /\ UNCHANGED submitVars
     \/ OnPointerUpA /\ lastOp' = "other" /\ UNCHANGED submitVars
     \/ ConfirmDraftA /\ lastOp' = "other" /\ UNCHANGED submitVars
     \/ (\E id \in Ids : RemoveRectA(id)) /\ lastOp' = "other" /\ UNCHANGED submitVars
     \/ (\E id \in Ids, action \in {"redact", "logo"} : SetActionA(id, action))
          /\ lastOp' = "other" /\ UNCHANGED submitVars
     \/ (\E id \in Ids, a \in Assets : UploadStartA(id, a))
          /\ lastOp' = "other" /\ UNCHANGED submitVars
     \/ (\E id \in Ids, a \in Assets : UploadDoneA(id, a))
          /\ lastOp' = "other" /\ UNCHANGED submitVars
     \/ RunSanitizationA /\ lastOp' = "submit"
     \/ (\E outcome \in Outcomes : RunSettledA(outcome) /\ lastOp' = outcome)

SpecSubmit == InitSubmit /\ [][NextSubmit]_vars

\* --------------------------------------------------------------- SpecRun
\* PDFSanitizerApp1.jsx: files added and removed, rectangles drawn and the Run
\* button pressed, in any order.  A call of onSubmit reaches its finally: each
\* of its awaits settles (fetch resolves or rejects), which is the fairness
\* condition on SubmitSettles.
InitRun ==
  /\ variant = "App1"
  /\ InitRenderVars
  /\ InitStoreVars
  /\ geo = GeoIdle
  /\ csv = CsvIdle
  /\ rectCap = MaxRects

NextRun ==
  /\ UNCHANGED <<renderVars, geo, rectCap, csv>>
  /\ \/ (\E d \in Docs : AddFiles1(d)) /\ lastOp' = "other" /\ UNCHANGED submitVars
     \/ (\E i \in Docs : SelectFile1(i)) /\ lastOp' = "other" /\ UNCHANGED submitVars
     \/ RemoveActive1 /\ lastOp' = "other" /\ UNCHANGED submitVars
     \/ LoadDone1 /\ lastOp' = "other" /\ UNCHANGED submitVars
     \/ LoadFail1 /\ lastOp' = "other" /\ UNCHANGED submitVars
     \/ PointerDown1(Origin) /\ lastOp' = "other" /\ UNCHANGED submitVars
     \/ PointerMove1(Far1) /\ lastOp' = "other" /\ UNCHANGED submitVars
     \/ PointerUp1 /\ lastOp' = "other" /\ UNCHANGED submitVars
     \/ OnSubmit1 /\ lastOp' = "submit"
     \/ (\E outcome \in Outcomes : SubmitSettled1(outcome) /\ lastOp' = outcome)

SubmitSettles ==
  /\ UNCHANGED <<renderVars, geo, rectCap, csv>>
  /\ \E outcome \in Outcomes : SubmitSettled1(outcome) /\ lastOp' = outcome

SpecRun == InitRun /\ [][NextRun]_vars /\ WF_vars(SubmitSettles)

\* ======================================================================
\* Specification of the erase-terms input (PDFSanitizerApp.jsx)
\* ======================================================================
\* The characters the inputs are made of: a letter in both cases, the two
\* separators and the blank.
Chars == {"f", "F", ",", " ", "\n"}

\* The input of the self-test: "foo, bar\nbaz, Foo".
SelfTestInput ==
  <<"f", "o", "o", ",", " ", "b", "a", "r", "\n", "b", "a", "z", ",", " ", "F", "o", "o">>

Inputs == UNION {[1..n -> Chars] : n \in 0..MaxChars} \cup {SelfTestInput}

\* The textarea's onChange: setEraseRaw(e.target.value); eraseList is
\* recomputed by useMemo from the new eraseRaw.
SetEraseRaw(text) ==
  /\ variant = "App"
  /\ csv' = [raw |-> text, out |-> parseEraseCSV(text)]
  /\ UNCHANGED <<variant, renderVars, storeVars, app0Vars, lastOp, geo, rectCap,
                 submitVars>>

InitParse ==
  /\ variant = "App"
  /\ InitRenderVars
  /\ InitStoreVars
  /\ geo = GeoIdle
  /\ csv = CsvIdle
  /\ rectCap = MaxRects

NextParse == \E text \in Inputs : SetEraseRaw(text)

SpecParse == InitParse /\ [][NextParse]_vars

\* ======================================================================
\* Specification of the selected files (PDFSanitizerApp.jsx, home page)
\* ======================================================================
\* In this specification an element of files is a File as the home page holds
\* it: [name, size, type], the name a sequence of characters.
PdfName == <<"a", ".", "p", "d", "f">>
PdFName == <<"a", ".", "p", "d", "F">>
TxtName == <<"a", ".", "t", "x", "t">>

\* The files the operator picks or drops: PDFs of two names and sizes, a PDF
\* the browser gives another type, a file without type and a text file.
Picked ==
  {[name |-> PdfName, size |-> z, type |-> "application/pdf"] : z \in {1, 2}}
    \cup {[name |-> PdFName, size |-> z, type |-> "application/octet-stream"] : z \in {1, 2}}
    \cup {[name |-> TxtName, size |-> 1, type |-> ""],
          [name |-> TxtName, size |-> 1, type |-> "text/plain"]}

\* One pick or drop: a FileList of one or two files; the two may have the same
\* name and size (dropped from two folders).
Batches == UNION {[1..n -> Picked] : n \in 1..2}

\* String.prototype.endsWith
endsWith(t, suffix) ==
  /\ Len(t) >= Len(suffix)
  /\ SubSeq(t, Len(t) - Len(suffix) + 1, Len(t)) = suffix

\* isPdf(file): the extension is .pdf, or the type is application/pdf or empty.
isPdf(file) ==
  LET ext == endsWith(toLowerCase(file.name), <<".", "p", "d", "f">>)
      mime == file.type = "application/pdf" \/ file.type = ""
  IN ext \/ mime

\* key = f => `${f.name}::${f.size}` (size is a number: the pair determines
\* the string and the string the pair).
key(f) == <<f.name, f.size>>

\* addFiles: the PDFs of `incoming` whose key is not among the keys of the
\* files already selected are pushed, in order, onto a copy of files.
merged(fs, incoming) ==
  LET pdfs == SelectSeq(incoming, isPdf)
      existing == {key(fs[i]) : i \in DOMAIN fs}
      Fresh(f) == key(f) \notin existing
  IN fs \o SelectSeq(pdfs, Fresh)

\* onFileChange / onDrop: addFiles(list); setFiles(merged).
AddFiles(incoming) ==
  /\ variant = "App"
  /\ Len(merged(files, incoming)) <= MaxListed
  /\ files' = merged(files, incoming)
  /\ UNCHANGED <<variant, renderVars, app0Vars, lastOp, geo, rectCap, submitVars, csv>>
  /\ UNCHANGED <<activeIdx, loadOf, pdfDoc, numPages, pageNumber, loadingPdf,
                 isDrawing, draft, confirmUI, pageRects, rects, rectActions,
                 templateFileIdx, uploads, nextId, nUploads, cleared>>

\* The Remove button of a listed file: setFiles(prev => prev.filter((_, i) => i !== idx)).
RemoveFile(idx) ==
  /\ variant = "App"
  /\ idx \in DOMAIN files
  /\ files' = RemoveAt(files, idx)
  /\ UNCHANGED <<variant, renderVars, app0Vars, lastOp, geo, rectCap, submitVars, csv>>
  /\ UNCHANGED <<activeIdx, loadOf, pdfDoc, numPages, pageNumber, loadingPdf,
                 isDrawing, draft, confirmUI, pageRects, rects, rectActions,
                 templateFileIdx, uploads, nextId, nUploads, cleared>>

\* The home page after construction: useState([]) for files; the editing page
\* is not mounted.
InitFiles ==
  /\ variant = "App"
  /\ InitRenderVars
  /\ files = <<>>
  /\ activeIdx = 1 /\ loadOf = 0 /\ pdfDoc = 0 /\ numPages = 0 /\ pageNumber = 1
  /\ loadingPdf = FALSE /\ isDrawing = FALSE /\ draft = <<>> /\ confirmUI = FALSE
  /\ pageRects = <<>> /\ rects = <<>> /\ rectActions = <<>> /\ templateFileIdx = 0
  /\ uploads = {} /\ nextId = 0 /\ nUploads = 0
  /\ cleared = [i \in 1..MaxCommits |-> 0]
  /\ startPos = <<0, 0>> /\ currentPos = <<0, 0>> /\ redactionZones = <<>>
  /\ pointerPos = <<0, 0>>
  /\ lastOp = "none"
  /\ submitting = FALSE /\ submissions = 0
  /\ geo = GeoIdle
  /\ csv = CsvIdle
  /\ rectCap = MaxRects

NextFiles ==
  \/ \E incoming \in Batches : AddFiles(incoming)
  \/ \E idx \in 1..MaxListed : RemoveFile(idx)

SpecFiles == InitFiles /\ [][NextFiles]_vars

\* ======================================================================
\* Specification of the document loads (PDFSanitizerApp1.jsx)
\* ======================================================================
InitLoad ==
  /\ variant = "App1"
  /\ InitRenderVars
  /\ InitStoreVars
  /\ geo = GeoIdle
  /\ csv = CsvIdle
  /\ rectCap = MaxRects

\* Files are added, selected and removed, pages are turned and rectangles are
\* drawn while loads come and go.
NextLoad ==
  /\ UNCHANGED <<renderVars, lastOp, geo, rectCap, submitVars, csv>>
  /\ \/ \E d \in Docs : AddFiles1(d)
     \/ \E i \in Docs : SelectFile1(i)
     \/ RemoveActive1
     \/ LoadDone1
     \/ LoadFail1
     \/ PrevPage1
     \/ NextPage1
     \/ PointerDown1(Origin)
     \/ PointerMove1(Far1)
     \/ PointerUp1

\* The load that is pending settles: file.arrayBuffer() and getDocument(...)
\* resolve or reject.
LoadSettles ==
  /\ LoadDone1 \/ LoadFail1
  /\ UNCHANGED <<renderVars, lastOp, geo, rectCap, submitVars, csv>>

\* A pending load settles eventually; nothing is assumed of the operator.
SpecLoad == InitLoad /\ [][NextLoad]_vars /\ WF_vars(LoadSettles)

\* The submission built in the current state: the zone list and, per zone index,
\* the asset submitted for it (0: none).
Submission ==
  LET zs == Zones IN
    [zones |-> zs,
     keys |-> ImageMapKeys,
     assets |-> [i \in 0..(Len(zs) - 1) |-> AssetAt(i)],
     rect |-> LET st == Stored IN
                [k \in DOMAIN zs |-> CHOOSE r \in st : r.id = zs[k].id]]

\* ======================================================================
\* Properties of the store and of the submission
\* ======================================================================
\* The document a zone is submitted for (0: the zone names no document).
ZoneDoc(z) == IF "file_idx" \in DOMAIN z THEN z.file_idx ELSE 0

\* The active page, in the numbering the store uses for its pages.
ActivePage == IF variant = "App1" THEN pageNumber ELSE 0

\* The document on display is the active one (no load pending).
DisplaySettled == variant = "App1" => (loadOf = 0 /\ pdfDoc = ActiveFile)

HasZone(id) == \E k \in DOMAIN Zones : Zones[k].id = id

\* C6: a rectangle committed while document d and page p were active is painted
\* and listed only while d is the active document and p the active page, and its
\* zone is submitted with d's document index.
C6_RectBelongsToDocPage ==
  \A r \in Stored : r.doc # 0 =>
    /\ (DisplaySettled /\ r.id \in Painted) => (r.doc = ActiveFile /\ r.page = ActivePage)
    /\ (DisplaySettled /\ r.id \in Listed) => (r.doc = ActiveFile /\ r.page = ActivePage)
    /\ \A k \in DOMAIN Zones : Zones[k].id = r.id => ZoneDoc(Zones[k]) = r.doc

\* C7: the submission has exactly one zone for every stored rectangle, so the
\* number of zones equals the number of stored rectangles.
C7_OneZonePerStoredRect ==
  /\ Len(Zones) = Cardinality(Stored)
  /\ \A r \in Stored : Cardinality({k \in DOMAIN Zones : Zones[k].id = r.id}) = 1

\* Every image_map key k is the index of a zone, and the asset submitted under k
\* is the asset of the rectangle whose zone is at position k.
KeysMatchPositions(s) ==
  \A i \in s.keys :
    /\ i + 1 \in DOMAIN s.zones
    /\ s.assets[i] = s.rect[i + 1].asset

\* C8, as stated: a rectangle committed before another has the smaller zone
\* index, and image_map keys match zone positions.
C8_CommitOrderIsZoneOrder ==
  LET s == Submission IN
    /\ \A j, k \in DOMAIN s.zones : s.zones[j].id < s.zones[k].id => j < k
    /\ KeysMatchPositions(s)

\* C8, amended: of two rectangles on the same page the one committed first has
\* the smaller zone index, and image_map keys match zone positions, also after
\* earlier rectangles were removed.
C8_SamePageOrderAndKeys ==
  LET s == Submission IN
    /\ \A j, k \in DOMAIN s.zones :
         (s.zones[j].page = s.zones[k].page /\ s.zones[j].id < s.zones[k].id) => j < k
    /\ KeysMatchPositions(s)

\* Two zones of one page behind a removed rectangle, the second with an asset.
C8_Witness ==
  LET s == Submission IN
    /\ Len(s.zones) >= 2
    /\ s.zones[1].page = s.zones[2].page
    /\ s.zones[1].id > 1 /\ ~HasZone(1)
    /\ 1 \in s.keys

\* C9: image_map has an entry at index i exactly when the rectangle of zone i is
\* a logo rectangle with an asset, the entry carries that asset, and a rectangle
\* that is redact or has no asset keeps its zone: of two rectangles of one page
\* either both have a zone or neither.
C9_EntryIffLogoWithAsset ==
  LET s == Submission IN
    /\ \A k \in DOMAIN s.zones :
         /\ (k - 1 \in s.keys) <=> (s.rect[k].kind = "logo" /\ s.rect[k].asset # 0)
         /\ (k - 1 \in s.keys) => s.assets[k - 1] = s.rect[k].asset
    /\ \A i \in s.keys : i + 1 \in DOMAIN s.zones
    /\ \A r1, r2 \in Stored :
         (r1.page = r2.page /\ \E k \in DOMAIN s.zones : s.zones[k].id = r1.id)
           => \E k \in DOMAIN s.zones : s.zones[k].id = r2.id

\* A logo zone without an asset next to a logo zone with one.
C9_Witness ==
  LET s == Submission IN
    \E j, k \in DOMAIN s.zones :
      /\ s.rect[j].kind = "logo" /\ s.rect[j].asset = 0
      /\ j - 1 \notin s.keys
      /\ s.rect[k].kind = "logo" /\ s.rect[k].asset # 0
      /\ k - 1 \in s.keys

\* C10: once a rectangle with asset X was set back to redact, no submission has
\* an image_map entry carrying X for it until an asset is attached to it again,
\* also when its kind is logo again.
C10_ClearedAssetNotSubmitted ==
  LET s == Submission IN
    \A k \in DOMAIN s.zones :
      cleared[s.zones[k].id] # 0 => s.assets[k - 1] # cleared[s.zones[k].id]

\* A rectangle whose asset was cleared and whose kind is logo again, submitted.
C10_Witness ==
  LET s == Submission IN
    \E k \in DOMAIN s.zones :
      /\ cleared[s.zones[k].id] # 0
      /\ s.rect[k].kind = "logo"

\* C11: an asset is applied to a rectangle only while its kind is logo: in no
\* step does a rectangle whose kind is redact come out with an asset recorded
\* (a logo upload that completes after the switch to redact records nothing).
C11_AttachOnlyWhenLogo ==
  [][\A r \in Stored : r.kind # "logo" =>
       \A r2 \in Stored' : r2.id = r.id => r2.asset = 0]_vars

\* ======================================================================
\* Specification and properties of the coordinate conversions
\* ======================================================================
InitGeom ==
  /\ variant \in {"App0", "App1"}
  /\ InitRenderVars
  /\ InitStoreVars
  /\ InitGeoVar
  /\ csv = CsvIdle
  /\ rectCap = MaxRects

NextGeom ==
  /\ UNCHANGED <<variant, renderVars, storeVars, app0Vars, lastOp, rectCap, submitVars,
                 csv>>
  /\ \/ NormalizeG
     \/ DenormalizeG
     \/ BuildG1
     \/ MouseUpG0
     \/ BuildG0

SpecGeom == InitGeom /\ [][NextGeom]_vars

\* C12: for every pixel rectangle, corners outside the surface and every drag
\* direction included, normalizeRect returns 0 <= x1n <= x2n <= 1 and
\* 0 <= y1n <= y2n <= 1.
C12_NormalizedInUnitSquare ==
  "nr" \in geo.done =>
    /\ FracLe(ZeroFrac, geo.nr.x1n) /\ FracLe(geo.nr.x1n, geo.nr.x2n)
    /\ FracLe(geo.nr.x2n, Frac(1, 1))
    /\ FracLe(ZeroFrac, geo.nr.y1n) /\ FracLe(geo.nr.y1n, geo.nr.y2n)
    /\ FracLe(geo.nr.y2n, Frac(1, 1))

\* A drag from beyond the right edge back to beyond the top edge, normalized.
C12_Witness ==
  /\ "nr" \in geo.done
  /\ geo.px.x1 > Surface[1] /\ geo.px.x2 < geo.px.x1
  /\ geo.px.y2 < 0

\* The pixel rectangle has positive width and height.
PositiveSize == geo.px.x1 < geo.px.x2 /\ geo.px.y1 < geo.px.y2

\* The pixel rectangle lies on the surface.
OnSurface ==
  /\ 0 <= geo.px.x1 /\ geo.px.x1 <= Surface[1]
  /\ 0 <= geo.px.x2 /\ geo.px.x2 <= Surface[1]
  /\ 0 <= geo.px.y1 /\ geo.px.y1 <= Surface[2]
  /\ 0 <= geo.px.y2 /\ geo.px.y2 <= Surface[2]

\* denormalizeRect(normalizeRect(r)) has the corners of r.
RoundTripExact ==
  /\ FracEq(geo.back.x1, Frac(geo.px.x1, 1)) /\ FracEq(geo.back.y1, Frac(geo.px.y1, 1))
  /\ FracEq(geo.back.x2, Frac(geo.px.x2, 1)) /\ FracEq(geo.back.y2, Frac(geo.px.y2, 1))

\* C13, as stated: every pixel rectangle of positive width and height is
\* reproduced by denormalizeRect(normalizeRect(r, W, H), W, H).
C13_RoundTripAnyRect ==
  ("back" \in geo.done /\ PositiveSize) => RoundTripExact

\* C13, amended: a pixel rectangle of positive width and height that lies on the
\* surface is reproduced by denormalizeRect(normalizeRect(r, W, H), W, H).
C13_RoundTripOnSurface ==
  ("back" \in geo.done /\ PositiveSize /\ OnSurface) => RoundTripExact

\* A rectangle strictly inside a non-square surface, taken there and back.
C13_Witness ==
  /\ "back" \in geo.done /\ PositiveSize /\ OnSurface
  /\ geo.px.x1 > 0 /\ geo.px.y1 > 0
  /\ Surface[1] # Surface[2]

\* The corner coordinate c of the overlay, in page points: c / scale.
InPoints(c) == Frac(c * geo.scale[2], geo.scale[1])

\* C14: the submitted bounding box is the rectangle in page points at scale 1,
\* whatever the zoom: its corners are the overlay corners divided by the zoom,
\* so a rectangle over the whole surface gives [0, 0, pageWidth, pageHeight].
C14_BboxInPagePoints ==
  ("bbox" \in geo.done /\ OnSurface) =>
    /\ FracEq(geo.bbox[1], fmt(InPoints(Min(geo.px.x1, geo.px.x2))))
    /\ FracEq(geo.bbox[2], fmt(InPoints(Min(geo.px.y1, geo.px.y2))))
    /\ FracEq(geo.bbox[3], fmt(InPoints(Max(geo.px.x1, geo.px.x2))))
    /\ FracEq(geo.bbox[4], fmt(InPoints(Max(geo.px.y1, geo.px.y2))))

\* ======================================================================
\* Properties of the drawing steps
\* ======================================================================
\* The draft of a drag: the rectangle between the point of the press and the
\* point the pointer is at.  App holds it in `draft`; App1 keeps the pointer's
\* point in currentPosRef from the press on; App0 updates currentPosRef on a
\* move only, so the pointer's point is taken from pointerPos.
HasDraft == variant = "App" => draft # <<>>
DraftW ==
  CASE variant = "App" -> IF draft = <<>> THEN 0 ELSE draft[3]
    [] variant = "App1" -> Abs(currentPos[1] - startPos[1])
    [] OTHER -> Abs(pointerPos[1] - startPos[1])
DraftH ==
  CASE variant = "App" -> IF draft = <<>> THEN 0 ELSE draft[4]
    [] variant = "App1" -> Abs(currentPos[2] - startPos[2])
    [] OTHER -> Abs(pointerPos[2] - startPos[2])

\* Number of rectangles stored for the page shown (App keeps one list).
CountOnPage ==
  CASE variant = "App1" -> Len(PageArr(pageNumber))
    [] variant = "App" -> Len(rects)
    [] OTHER -> Cardinality({j \in DOMAIN redactionZones :
                               redactionZones[j].page = pageNumber})

\* No drag, no draft, no confirm prompt.
Idle == ~isDrawing /\ draft = <<>> /\ ~confirmUI

\* C15: a pointer release whose draft has width 0 or height 0 never increases
\* the number of rectangles stored for the page.
C15_ZeroDraftNeverStored ==
  [][(lastOp' = "release" /\ HasDraft /\ (DraftW = 0 \/ DraftH = 0))
       => CountOnPage' <= CountOnPage]_vars

\* C18: clearPageRects empties the active page and leaves every other page's
\* rectangles (coordinates, kinds, assets, order) as they were.
C18_ClearOnlyActivePage ==
  [][lastOp' = "clear" =>
       /\ DOMAIN pageRects' = DOMAIN pageRects \cup {pageNumber}
       /\ pageRects'[pageNumber] = <<>>
       /\ \A p \in DOMAIN pageRects \ {pageNumber} : pageRects'[p] = pageRects[p]]_vars

\* The active page has just been cleared while another page holds a logo
\* rectangle with its asset.
C18_Witness ==
  /\ lastOp = "clear"
  /\ PageArr(pageNumber) = <<>>
  /\ \E p \in DOMAIN pageRects \ {pageNumber} :
       \E j \in DOMAIN pageRects[p] :
         pageRects[p][j].kind = "logo" /\ pageRects[p][j].logoFile # 0

\* A draft waits for Confirm or Cancel and no drag is in progress.
PendingConfirm == variant = "App" /\ confirmUI /\ draft # <<>> /\ ~isDrawing

\* n px is the length d (in 1/Unit px) rounded to the nearest pixel, halves up.
IsRounded(n, d) == 2 * n * Unit - Unit <= 2 * d /\ 2 * d < 2 * n * Unit + Unit

\* C19: from PendingConfirm, Confirm appends exactly one rectangle, built from
\* the pending draft, and Cancel leaves the store as it is; after either there
\* is no drag, no draft and no confirm prompt.
C19_ConfirmOrCancel ==
  [][PendingConfirm =>
       /\ lastOp' = "confirm" =>
            /\ Len(rects') = Len(rects) + 1
            /\ SubSeq(rects', 1, Len(rects)) = rects
            /\ LET r == rects'[Len(rects')] IN
                 /\ IsRounded(r.x, draft[1]) /\ IsRounded(r.y, draft[2])
                 /\ IsRounded(r.w, draft[3]) /\ IsRounded(r.h, draft[4])
                 /\ r.fileIdx = activeIdx
                 /\ r.id \notin RectIds
                 /\ DOMAIN rectActions' = DOMAIN rectActions \cup {r.id}
                 /\ \A k \in DOMAIN rectActions : rectActions'[k] = rectActions[k]
            /\ Idle'
       /\ lastOp' = "cancel" => (UNCHANGED <<rects, rectActions>> /\ Idle')]_vars

\* Confirm has just stored, as second rectangle, a draft 4.5 px wide.
C19_Witness ==
  /\ variant = "App" /\ lastOp = "confirm"
  /\ Len(rects) = 2
  /\ rects[2].w = 5 /\ rects[2].x = 0
  /\ Idle

\* The variants' minimum sizes: App keeps a draft of 4 px and more, App0 one of
\* more than 5 px, App1 any draft with a width and a height.
BelowThreshold ==
  CASE variant = "App" -> ~HasDraft \/ DraftW < 4 * Unit \/ DraftH < 4 * Unit
    [] variant = "App0" -> DraftW <= 5 \/ DraftH <= 5
    [] OTHER -> DraftW = 0 \/ DraftH = 0

\* The step leaves every store as it is.
StoreUnchanged == UNCHANGED <<pageRects, rects, rectActions, redactionZones>>

\* The step leaves the draft waiting for Confirm or Cancel (App), or has stored
\* it on the page shown (App0, App1).
ExposedOrCommitted ==
  IF variant = "App"
    THEN confirmUI' /\ draft' = draft /\ ~isDrawing' /\ StoreUnchanged
    ELSE ~isDrawing' /\ CountOnPage' = CountOnPage + 1

\* C20: a release while drawing discards a draft whose width or
\* height is below the minimum size (back to Idle, store unchanged), and exposes
\* or commits every other draft.
C20_ReleaseBySize ==
  [][(lastOp' = "release" /\ isDrawing) =>
       IF BelowThreshold THEN Idle' /\ StoreUnchanged ELSE ExposedOrCommitted]_vars


\* ======================================================================
\* Properties of removal and of the listing order
\* ======================================================================
\* The ids shown or submitted by App: the rectangle list, the overlay of the
\* active file, and the zones runSanitization builds.
AllListings == Listed \cup Painted \cup {Zones[k].id : k \in DOMAIN Zones}

\* C16: in App, once removeRect(id) has run (the step deletes the action of id)
\* no listing contains id again, whatever follows; and removeRect of an id that
\* is not in the store leaves the rectangles and their actions as they are.
C16_RemovedIdStaysOut ==
  /\ [][variant = "App" =>
          \A id \in 1..nextId :
            (id \notin RectIds \/ (id \in DOMAIN rectActions /\ id \notin DOMAIN rectActions'))
              => id \notin AllListings']_vars
  /\ [](variant = "App" =>
          \A id \in Ids \ RectIds :
            /\ WithoutId(rects, id) = rects
            /\ \A k \in RectIds : Drop(rectActions, id)[k] = rectActions[k])

\* A removed rectangle for which a late upload has written an action again,
\* while other rectangles are stored.
C16_Witness ==
  /\ variant = "App"
  /\ rects # <<>>
  /\ \E id \in 1..nextId : id \notin RectIds /\ id \in DOMAIN rectActions

\* C17: the rectangles of a page are listed in the order they were committed
\* (ids are given in commit order), whatever was removed, changed, attached,
\* cleared or navigated before.
C17_ListedInCommitOrder ==
  /\ variant = "App1" =>
       \A p \in DOMAIN pageRects : \A i, j \in DOMAIN pageRects[p] :
         i < j => pageRects[p][i].id < pageRects[p][j].id
  /\ variant = "App" =>
       \A i, j \in DOMAIN rects : i < j => rects[i].id < rects[j].id

\* After the first rectangle was removed, a page lists the second and the third,
\* the second turned into a logo with its asset.
C17_Witness ==
  /\ variant = "App1"
  /\ \E p \in DOMAIN pageRects :
       /\ Len(pageRects[p]) = 2
       /\ pageRects[p][1].id = 2 /\ pageRects[p][2].id = 3
       /\ pageRects[p][1].logoFile # 0
  /\ Cardinality(Stored1) = 2


\* ======================================================================
\* Properties of submitting
\* ======================================================================
\* A step of a submission: its start or one of its three endings.
SubmissionStep == lastOp' \in {"submit"} \cup Outcomes

\* C21: a submission never changes the annotation state: whether it succeeds, is
\* answered with an error status or fails in transport, the stored rectangles
\* with their kinds and assets are the same after each of its steps as before,
\* so a retry builds the same zones.
C21_SubmitLeavesStore ==
  [][SubmissionStep =>
       /\ pageRects' = pageRects
       /\ rects' = rects
       /\ rectActions' = rectActions
       /\ Stored' = Stored
       /\ Submission' = Submission]_vars

\* A submission of a logo rectangle with its asset has just failed in transport.
C21_Witness ==
  /\ lastOp = "rejected"
  /\ ~submitting
  /\ \E r \in Stored : r.kind = "logo" /\ r.asset # 0
  /\ \E i \in DOMAIN Submission.assets : Submission.assets[i] # 0


\* ======================================================================
\* Properties of the session
\* ======================================================================
\* C22: removing the active document resets the session: after the step the
\* list of documents is empty and no rectangle is stored.  ("Remove active" is
\* the only step that shortens the list of documents.)
C22_RemoveActiveResets ==
  [][Len(files') < Len(files) =>
       /\ files' = <<>>
       /\ pageRects' = <<>>
       /\ Stored' = {}]_vars


\* ======================================================================
\* Properties of the identifiers
\* ======================================================================
\* What the handlers address each stored rectangle by, next to the rectangle's
\* commit number: its id in PDFSanitizerApp.jsx, its page and its index in the
\* page's array in PDFSanitizerApp1.jsx.
Addressed ==
  IF variant = "App1"
    THEN {[by |-> <<p, j>>, rect |-> pageRects[p][j].id] :
            <<p, j>> \in {<<q, i>> \in (DOMAIN pageRects) \X (1..MaxCommits) :
                            i <= Len(pageRects[q])}}
    ELSE {[by |-> rects[j].id, rect |-> rects[j].id] : j \in DOMAIN rects}

\* C23: identifiers are never reused: no two stored rectangles share an
\* identifier, and an identifier that addresses a rectangle never addresses
\* another rectangle after a step, so an operation addressed to a removed
\* rectangle's identifier affects no other rectangle.
C23_IdentifierNeverReused ==
  /\ [](\A a, b \in Addressed : a.by = b.by => a.rect = b.rect)
  /\ [][\A a \in Addressed, b \in Addressed' : a.by = b.by => a.rect = b.rect]_vars


\* ======================================================================
\* Properties of the page numbers
\* ======================================================================
\* PDFSanitizerApp0.jsx runSanitization:
\* redactionZones.map(z => ({ page: z.page, bbox: [...] }))
TemplateZones0 ==
  [k \in DOMAIN redactionZones |->
     [page |-> redactionZones[k].page, bbox |-> Bbox0(redactionZones[k])]]

\* Per zone of the submission, the page number sent and the page, counted from
\* 1, that was shown when the rectangle was committed: currentPage in
\* PDFSanitizerApp0.jsx, the key of pageRects in PDFSanitizerApp1.jsx, and the
\* first page, the only one rendered, in PDFSanitizerApp.jsx.
SentPages ==
  CASE variant = "App0" ->
         [k \in DOMAIN redactionZones |->
            [sent |-> TemplateZones0[k].page, drawn |-> redactionZones[k].page]]
    [] variant = "App1" ->
         [k \in DOMAIN Rectangles1 |->
            [sent |-> Rectangles1[k].page, drawn |-> Walked1[k].p]]
    [] OTHER ->
         [k \in DOMAIN ZonesA |-> [sent |-> ZonesA[k].page, drawn |-> 1]]

\* C24: every zone sent carries a zero-based page number: a rectangle drawn on
\* page p (counted from 1) is sent with page p - 1, so the first page gives 0
\* and the last page numPages - 1.
C24_ZeroBasedPages ==
  \A k \in DOMAIN SentPages :
    /\ SentPages[k].sent = SentPages[k].drawn - 1
    /\ variant # "App" => SentPages[k].sent \in 0..(numPages - 1)


\* ======================================================================
\* Properties of a commit
\* ======================================================================
\* C25: every newly committed rectangle has kind redact and no asset: a
\* rectangle that is stored after a step and was not stored before it is a
\* redact rectangle without asset.
C25_NewRectIsRedact ==
  [][\A r \in Stored' :
       r.id \notin {q.id : q \in Stored} => (r.kind = "redact" /\ r.asset = 0)]_vars

\* A second rectangle has just been committed.
C25_Witness ==
  /\ lastOp \in {"release", "confirm"}
  /\ Cardinality(Stored) = 2
  /\ \E r \in Stored : r.id = nextId /\ r.kind = "redact" /\ r.asset = 0


\* ======================================================================
\* Properties of normalizeRect on given numbers
\* ======================================================================
\* The fraction f differs from n / d by 1/1000 at most.
Near(f, n, d) == Abs(f[1] * d - n * f[2]) * 1000 <= f[2] * d

\* C26: the rectangle between (10, 10) and (110, 60) on an 800 x 600 surface is
\* normalized to x1 = 0.0125, y1 = 0.0167, x2 = 0.1375, y2 = 0.1, each within
\* 1e-3, in whichever direction it was dragged.
C26_NormalizedScenario ==
  (variant = "App1" /\ geo.page = WidePage /\ "nr" \in geo.done) =>
    /\ Near(geo.nr.x1n, 125, 10000)
    /\ Near(geo.nr.y1n, 167, 10000)
    /\ Near(geo.nr.x2n, 1375, 10000)
    /\ Near(geo.nr.y2n, 1, 10)

\* The rectangle was dragged from its bottom right corner to its top left
\* corner and has been normalized.
C26_Witness ==
  /\ variant = "App1"
  /\ geo.page = WidePage
  /\ geo.px = [x1 |-> 110, y1 |-> 60, x2 |-> 10, y2 |-> 10]
  /\ "nr" \in geo.done
  /\ FracEq(geo.nr.x1n, Frac(1, 80))
  /\ FracEq(geo.nr.y1n, Frac(1, 60))


\* ======================================================================
\* Properties of parseEraseCSV
\* ======================================================================
\* The terms typed: the pieces between commas and newlines, trimmed, the empty
\* ones left out.
TermsTyped == {TrimmedTerms(csv.raw)[i] : i \in DOMAIN TrimmedTerms(csv.raw)}

\* C27: parseEraseCSV returns the trimmed, non-empty terms between commas and
\* newlines and keeps terms that differ only in letter case as separate
\* entries: every term typed is in the list, and "foo, bar\nbaz, Foo" gives 4
\* terms.
C27_CaseDifferingTermsKept ==
  /\ {csv.out[i] : i \in DOMAIN csv.out} = TermsTyped
  /\ csv.raw = SelfTestInput => Len(csv.out) = 4


\* ======================================================================
\* Properties of the render after a file switch (PDFSanitizerApp.jsx)
\* ======================================================================
\* pageMeta: render() calls setPageMeta(meta) in the block that sizes the canvas
\* and the overlay, with the width, height, size class and orientation of the
\* same viewport, so pageMeta is the meta of the viewport the canvas has
\* (0: null).
pageMeta == IF variant = "App" THEN canvasDims ELSE 0

\* C28: after the active file is switched only the render of the newly active
\* file publishes: once every render has settled and the render of the active
\* file (the latest one requested) has resolved, pageMeta and the dimensions of
\* the canvas and of the overlay are those of the active file's first page.
C28_ActiveFilePublished ==
  (variant = "App" /\ nreq > 0 /\ Quiescent /\ rq[nreq].st = "resolved") =>
    /\ pageMeta = rq[nreq].vp
    /\ canvasDims = rq[nreq].vp
    /\ overlayDims = rq[nreq].vp


\* ======================================================================
\* Properties of the pointer-down (PDFSanitizerApp.jsx)
\* ======================================================================
\* C29: pointer-down is accepted only in Idle: no reachable state has the
\* confirm prompt shown (confirmUI set) while a rectangle is being drawn
\* (drawingRef true), so Confirm never commits a draft that is still being
\* drawn and a pending draft is never replaced by a new pointer-down.
C29_NoDrawingWhilePending ==
  variant = "App" => ~(confirmUI /\ isDrawing)


\* ======================================================================
\* Properties of the submitted boxes
\* ======================================================================
\* PDFSanitizerApp.jsx runSanitization: bbox: [r.x, r.y, r.x + r.w, r.y + r.h]
BboxA(r) == <<r.x, r.y, r.x + r.w, r.y + r.h>>

\* The box <<x1, y1, x2, y2>> of fractions lies inside a page of w x h points.
InsidePage(b, w, h) ==
  /\ FracLe(ZeroFrac, b[1]) /\ FracLe(b[1], b[3]) /\ FracLe(b[3], Frac(w, 1))
  /\ FracLe(ZeroFrac, b[2]) /\ FracLe(b[2], b[4]) /\ FracLe(b[4], Frac(h, 1))

\* C30: every bounding box submitted lies inside its page, 0 <= x1 <= x2 <= page
\* width and 0 <= y1 <= y2 <= page height, also when the pointer was dragged
\* outside the overlay.  In PDFSanitizerApp.jsx the page is the overlay's size;
\* in PDFSanitizerApp1.jsx the box is computed for the page size at scale 1,
\* whatever it is.
C30_BboxInsidePage ==
  /\ variant = "App" =>
       \A k \in DOMAIN rects :
         LET b == BboxA(rects[k])
         IN InsidePage(<<Frac(b[1], 1), Frac(b[2], 1), Frac(b[3], 1), Frac(b[4], 1)>>,
                       OverlayW, OverlayH)
  /\ variant = "App1" =>
       \A p \in DOMAIN pageRects : \A j \in DOMAIN pageRects[p] : \A page \in PageSizes :
         InsidePage(BboxPts1(pageRects[p][j].nr, page[1], page[2]), page[1], page[2])


\* ======================================================================
\* Properties of a click (PDFSanitizerApp0.jsx)
\* ======================================================================
\* C31: a mouse press followed by a release with no mouse move in between adds
\* no redaction zone, whatever was dragged before.
C31_ClickAddsNoZone ==
  [][(variant = "App0" /\ lastOp = "down" /\ lastOp' = "release") =>
       redactionZones' = redactionZones]_vars


\* ======================================================================
\* Properties of the render pipeline at rest
\* ======================================================================
\* C32: whenever no render is pending or in flight, the overlay canvas has the
\* pixel dimensions of the base canvas, also after a render that was cancelled
\* or that failed (PDFSanitizerApp0.jsx, PDFSanitizerApp1.jsx).
C32_OverlayMatchesCanvas ==
  (variant \in {"App0", "App1"} /\ Quiescent) => overlayDims = canvasDims


\* C34: in PDFSanitizerApp0.jsx, whenever a render task is in flight
\* renderTaskRef holds that task: the settling of an older task never clears the
\* reference to a newer one, so the next request finds it there and cancels it.
C34_RefHoldsTaskInFlight ==
  variant = "App0" => \A i \in InFlight : renderTaskRef = i


\* C35: in PDFSanitizerApp1.jsx the rendering flag is true in every state where
\* a render awaits its page or its task is in flight; the settling of a
\* cancelled or superseded render does not clear it while a successor remains.
C35_RenderingWhileInFlight ==
  variant = "App1" =>
    ((\E i \in Requests : rq[i].st \in {"getPage", "running"}) => rendering)


\* ======================================================================
\* Properties of the draft (PDFSanitizerApp.jsx)
\* ======================================================================
\* C33: the draft is never part of the store: pointer-down, pointer-move,
\* pointer-up (whether the prompt opens or the draft is dropped) and Cancel
\* leave rects and rectActions unchanged, and rects grows only in confirmDraft.
C33_DraftNotInStore ==
  [][variant = "App" =>
       /\ lastOp' \in {"down", "move", "release", "cancel"} =>
            (rects' = rects /\ rectActions' = rectActions)
       /\ Len(rects') > Len(rects) => lastOp' = "confirm"]_vars

\* A draft large enough has just been released, next to a stored rectangle, and
\* awaits Confirm or Cancel.
C33_Witness ==
  /\ variant = "App"
  /\ lastOp = "release"
  /\ confirmUI /\ draft # <<>>
  /\ Len(rects) = 1
  /\ DOMAIN rectActions = {rects[1].id}


\* ======================================================================
\* Properties of the document loads (PDFSanitizerApp1.jsx)
\* ======================================================================
\* C36: once no document load is in flight loadingPdf becomes false, after any
\* additions, selections and removals of files, also when the active file was
\* removed, leaving none, while its load was in flight.
C36_LoadingEventuallyFalse == (loadOf = 0) ~> ~loadingPdf


\* ======================================================================
\* Properties of the rectangle actions (PDFSanitizerApp.jsx)
\* ======================================================================
\* C37: in PDFSanitizerApp.jsx the keys of rectActions are exactly the ids of
\* the rectangles in rects, in every reachable state: no entry is left, or
\* written, for a rectangle that was removed, also when a logo upload started
\* for it answers after the removal.
C37_ActionKeysAreRectIds == variant = "App" => DOMAIN rectActions = RectIds


\* ======================================================================
\* Properties of the Run button (PDFSanitizerApp1.jsx)
\* ======================================================================
\* C38: in PDFSanitizerApp1.jsx at most one submission is in flight (the Run
\* button is disabled while submitting), the step that ends a submission sets
\* submitting to false whatever the outcome (ok, error status, rejection), the
\* flag is false whenever no submission is in flight, and a submission under
\* way is followed by a state where submitting is false again, so that the
\* operator can retry.
C38_OneSubmissionAndReset ==
  /\ [](variant = "App1" => submissions <= 1)
  /\ [](variant = "App1" => (submitting <=> submissions = 1))
  /\ [][(variant = "App1" /\ lastOp' \in Outcomes /\ submissions' < submissions)
         => ~submitting']_vars
  /\ (variant = "App1" /\ submitting) ~> (~submitting /\ submissions = 0)

\* A submission has ended with an error status, the files are still selected
\* and the Run button is enabled again.
C38_Witness ==
  /\ variant = "App1"
  /\ lastOp = "status"
  /\ submissions = 0
  /\ ~RunDisabled1


\* ======================================================================
\* Properties of the selected files (PDFSanitizerApp.jsx, home page)
\* ======================================================================
\* C39: the list of selected files never holds two files with the same name
\* and size, after any sequence of addFiles calls (a batch may hold the same
\* file twice) and removals.
C39_NoDuplicateFiles ==
  variant = "App" =>
    \A i, j \in DOMAIN files : key(files[i]) = key(files[j]) => i = j

=============================================================================
